---- MODULE Spec2Model ----
(***************************************************************************)
(* A model of the NEAR validator indexer (Luganodes/Near-indexer).         *)
(*                                                                         *)
(* The program is a batch pipeline.  Its parts are modelled as separate    *)
(* state machines over one set of variables; each part has its own         *)
(* specification, and the variables of the other parts stay at their idle  *)
(* value:                                                                  *)
(*   SpecRewards    calculate_rewards over decimal strings                 *)
(*   SpecGateway    the dual-endpoint RPC gateway operations               *)
(*   SpecDiscover   one run of get_epoch_data over a chain oracle          *)
(*   SpecSync       get_or_sync_epoch_data over successive runs            *)
(*   SpecClassify   analyze_staking_transaction on one transaction         *)
(*   SpecTx         fetch_and_process_transactions over successive runs    *)
(*   SpecAmount     safe_parse_amount on one amount string                 *)
(*   SpecApy        calculate_apy on one (rewards, stake) pair             *)
(*   SpecEpoch      process_delegator_data, one epoch task                 *)
(*   SpecMetrics    save_validator_metrics over successive writes          *)
(*   SpecDriver     main: the fetch, the discovery and the fan-out         *)
(*   SpecBoundary   find_epoch_boundary on a chain without missing heights *)
(*   SpecFetch      fetch_new_transactions against a rate-limiting API     *)
(*   SpecBoundaryGaps  the same search on a chain with missing heights     *)
(*   SpecLog        parse_staking_log on one log line                      *)
(*   SpecWrites     main with the epoch tasks taken write by write         *)
(*   SpecRuns       successive runs of main over one store                 *)
(*   SpecBlockAt    get_block_info on endpoints that serve a chain         *)
(*                                                                         *)
(* Strings are sequences of one-character strings, so that parsing and     *)
(* formatting are computed and not assumed.  An Option<T> is a sequence    *)
(* of length at most one: None is << >>, Some(x) is << x >>.               *)
(***************************************************************************)
EXTENDS Integers, Sequences, FiniteSets, TLC

VARIABLES
    cr,            \* the frame of one calculate_rewards call
    rpc,           \* the frame of one RPC gateway operation
    chain,         \* the chain the RPC endpoints serve (the oracle)
    epoch_sync,    \* the epoch_sync collection of the document store
    gos,           \* the frame of get_or_sync_epoch_data
    ged,           \* the frame of get_epoch_data
    feb,           \* the frame of find_epoch_boundary / find_boundary_linear
    history,       \* the rows the history API serves (the oracle)
    transactions,  \* the transactions collection of the document store
    ftx,           \* the frame of fetch_and_process_transactions
    cls,           \* the frame of one analyze_staking_transaction call
    spa,           \* the frame of one safe_parse_amount call
    ca,            \* the frame of one calculate_apy call
    pdd,           \* the frame of process_delegator_data
    epoch_data,    \* the epoch_data collection of the document store
    validator_metrics, \* the validator_metrics collection
    delegators,    \* the delegators collection
    drv            \* the frame of main

vars == << cr, rpc, chain, epoch_sync, gos, ged, feb,
           history, transactions, ftx, cls,
           spa, ca, pdd, epoch_data, validator_metrics, delegators, drv >>

\* the epoch processor's collections and the frames of its functions
processorVars == << spa, ca, pdd, epoch_data, validator_metrics, delegators >>

driverVars == << drv >>

rewardsVars == << cr, processorVars, driverVars >>

gatewayVars == << rpc >>

syncVars == << chain, epoch_sync, gos, ged, feb >>

txVars == << history, transactions, ftx, cls >>

\* the idle value of each part
crIdle == [ pc |-> "idle" ]

rpcIdle == [ pc |-> "idle" ]

gosIdle == [ pc |-> "idle" ]

gedIdle == [ pc |-> "idle" ]

febIdle == [ pc |-> "idle" ]

chainIdle == [ boundaries |-> {}, missing |-> {}, latest_final |-> 0 ]

historyIdle == [ txns |-> << >>, visible |-> 0 ]

ftxIdle == [ pc |-> "idle" ]

clsIdle == [ pc |-> "idle" ]

spaIdle == [ pc |-> "idle" ]

caIdle == [ pc |-> "idle" ]

pddIdle == [ pc |-> "idle" ]

drvIdle == [ pc |-> "idle" ]

ProcessorIdle ==
    /\ spa = spaIdle
    /\ ca = caIdle
    /\ pdd = pddIdle
    /\ epoch_data = {}
    /\ validator_metrics = {}
    /\ delegators = {}

DriverIdle == drv = drvIdle

RewardsIdle == cr = crIdle /\ ProcessorIdle /\ DriverIdle

GatewayIdle == rpc = rpcIdle

SyncIdle ==
    /\ chain = chainIdle
    /\ epoch_sync = {}
    /\ gos = gosIdle
    /\ ged = gedIdle
    /\ feb = febIdle

TxIdle ==
    /\ history = historyIdle
    /\ transactions = << >>
    /\ ftx = ftxIdle
    /\ cls = clsIdle

----------------------------------------------------------------------------
(* Options and small helpers                                               *)

None == << >>

Some(x) == << x >>

IsSome(o) == Len(o) = 1

Unwrap(o) == o[1]

Max(a, b) == IF a >= b THEN a ELSE b

\* all sequences over S of length at most n
SeqsUpTo(S, n) == UNION { [1..k -> S] : k \in 0..n }

----------------------------------------------------------------------------
(* Decimal strings and num_bigint::BigInt                                  *)

Digits == << "0", "1", "2", "3", "4", "5", "6", "7", "8", "9" >>

IsDigit(c) == \E i \in 1..10 : Digits[i] = c

DigitVal(c) == (CHOOSE i \in 1..10 : Digits[i] = c) - 1

\* the value of a non-empty sequence of digits
RECURSIVE DigitsVal(_)
DigitsVal(s) ==
    IF Len(s) = 0 THEN 0
    ELSE 10 * DigitsVal(SubSeq(s, 1, Len(s) - 1)) + DigitVal(s[Len(s)])

AllDigits(s) == Len(s) > 0 /\ \A i \in 1..Len(s) : IsDigit(s[i])

\* BigInt::from_str: one optional sign, then one or more decimal digits.
\* The result is an Option<BigInt>.
BigIntFromStr(s) ==
    IF Len(s) > 0 /\ s[1] = "-"
    THEN IF AllDigits(Tail(s)) THEN Some(0 - DigitsVal(Tail(s))) ELSE None
    ELSE IF Len(s) > 0 /\ s[1] = "+"
         THEN IF AllDigits(Tail(s)) THEN Some(DigitsVal(Tail(s))) ELSE None
         ELSE IF AllDigits(s) THEN Some(DigitsVal(s)) ELSE None

\* the decimal digits of a natural number, no leading zeros
RECURSIVE NatToString(_)
NatToString(n) ==
    IF n < 10 THEN << Digits[n + 1] >>
    ELSE NatToString(n \div 10) \o << Digits[(n % 10) + 1] >>

\* BigInt::to_string
BigIntToString(n) ==
    IF n < 0 THEN << "-" >> \o NatToString(0 - n) ELSE NatToString(n)

\* BigInt::from_str(s).unwrap_or_else(|_| BigInt::zero())
BigIntOrZero(s) ==
    IF IsSome(BigIntFromStr(s)) THEN Unwrap(BigIntFromStr(s)) ELSE 0

----------------------------------------------------------------------------
(* Epoch processor: calculate_rewards                                      *)

\* the same function without the clamp of a negative result
calculate_rewards_unclamped(current_stake, previous_stake, transaction_total) ==
    LET current  == BigIntOrZero(current_stake)
        previous == IF IsSome(previous_stake)
                    THEN BigIntOrZero(Unwrap(previous_stake)) ELSE 0
        tx_total == IF IsSome(transaction_total)
                    THEN Unwrap(transaction_total) ELSE 0
    IN  IF previous = 0 /\ current # 0
        THEN << "0" >>
        ELSE BigIntToString(current - (previous + tx_total))

\* the same function without the first-stake early return
calculate_rewards_no_first_stake(current_stake, previous_stake, transaction_total) ==
    LET current  == BigIntOrZero(current_stake)
        previous == IF IsSome(previous_stake)
                    THEN BigIntOrZero(Unwrap(previous_stake)) ELSE 0
        tx_total == IF IsSome(transaction_total)
                    THEN Unwrap(transaction_total) ELSE 0
        rewards  == current - (previous + tx_total)
    IN  IF rewards < 0 THEN << "0" >> ELSE BigIntToString(rewards)

calculate_rewards(current_stake, previous_stake, transaction_total) ==
    LET current  == BigIntOrZero(current_stake)
        previous == IF IsSome(previous_stake)
                    THEN BigIntOrZero(Unwrap(previous_stake)) ELSE 0
        tx_total == IF IsSome(transaction_total)
                    THEN Unwrap(transaction_total) ELSE 0
        rewards  == current - (previous + tx_total)
    IN  IF previous = 0 /\ current # 0
        THEN << "0" >>
        ELSE IF rewards < 0 THEN << "0" >> ELSE BigIntToString(rewards)

\* bounds of the inputs of calculate_rewards
MaxStakeLen == 2

MaxTxTotal == 3

StakeChars == { "0", "1", "2", "-" }

StakeStrings == SeqsUpTo(StakeChars, MaxStakeLen)

TxTotals == { None } \cup { Some(t) : t \in (0 - MaxTxTotal)..MaxTxTotal }

InitRewards ==
    /\ ProcessorIdle
    /\ DriverIdle
    /\ GatewayIdle
    /\ SyncIdle
    /\ TxIdle
    /\ \E c \in StakeStrings, p \in { None } \cup { Some(s) : s \in StakeStrings },
       t \in TxTotals :
          cr = [ pc |-> "call", current_stake |-> c, previous_stake |-> p,
                 transaction_total |-> t, rewards |-> << >> ]

\* process_delegator_data: rewards = calculate_rewards(...)
CalculateRewards ==
    /\ cr.pc = "call"
    /\ cr' = [ cr EXCEPT !.pc = "done",
                         !.rewards = calculate_rewards(cr.current_stake,
                                         cr.previous_stake, cr.transaction_total) ]
    /\ UNCHANGED << processorVars, driverVars, gatewayVars, syncVars, txVars >>

NextRewards == CalculateRewards

SpecRewards == InitRewards /\ [][NextRewards]_vars

----------------------------------------------------------------------------
(* Claims about calculate_rewards                                          *)

\* the call's inputs as numbers, as the function reads them
crCurrent == BigIntOrZero(cr.current_stake)

crPrevAbsent == ~IsSome(cr.previous_stake)

crPrev == IF crPrevAbsent THEN 0 ELSE BigIntOrZero(Unwrap(cr.previous_stake))

crTx == IF IsSome(cr.transaction_total) THEN Unwrap(cr.transaction_total) ELSE 0

\* C7: reward non-negativity.  Whatever the inputs (negative tx_delta and
\* unparseable strings included) the result is the decimal string of an
\* integer >= 0 (digits only, no sign, no leading zero), and when the
\* previous stake is 0 or absent and tx_delta >= current stake it is "0".
C7_RewardNonNegative ==
    cr.pc = "done" =>
        /\ AllDigits(cr.rewards)
        /\ (Len(cr.rewards) > 1 => cr.rewards[1] # "0")
        /\ (crPrev = 0 /\ crTx >= crCurrent => cr.rewards = << "0" >>)

\* C7 witness: a negative algebraic result (current 1, previous 2, delta 3)
\* has been clamped.
C7_Witness ==
    /\ cr.pc = "done"
    /\ cr.current_stake = << "1" >>
    /\ cr.previous_stake = Some(<< "2" >>)
    /\ cr.transaction_total = Some(3)
    /\ cr.rewards = << "0" >>

\* both stake strings are decimal integers (the previous one may be absent)
crWellFormed ==
    /\ IsSome(BigIntFromStr(cr.current_stake))
    /\ crPrevAbsent \/ IsSome(BigIntFromStr(Unwrap(cr.previous_stake)))

\* C8 as stated, on well-formed inputs: rewards = 0 when the account is
\* absent from the previous map and B_curr > 0; in every other case (present
\* with balance 0 included) rewards = max(0, B_curr - (prev + tx_delta)).
C8_AsStated ==
    cr.pc = "done" /\ crWellFormed =>
        cr.rewards = IF crPrevAbsent /\ crCurrent > 0
                     THEN << "0" >>
                     ELSE BigIntToString(Max(0, crCurrent - (crPrev + crTx)))

\* C8 amended: rewards = 0 when the previous balance is absent or reads as
\* 0 and B_curr is not 0; in every other case
\* rewards = max(0, B_curr - (prev + tx_delta)).
C8_RewardDerivation ==
    cr.pc = "done" =>
        cr.rewards = IF crPrev = 0 /\ crCurrent # 0
                     THEN << "0" >>
                     ELSE BigIntToString(Max(0, crCurrent - (crPrev + crTx)))

\* C8 witness: a stake during the epoch (previous 10, delta 1, current 12)
\* leaves the reward 1.
C8_Witness ==
    /\ cr.pc = "done"
    /\ cr.previous_stake = Some(<< "1", "0" >>)
    /\ cr.transaction_total = Some(1)
    /\ cr.current_stake = << "1", "2" >>
    /\ cr.rewards = << "1" >>

----------------------------------------------------------------------------
(* RPC gateway: query_rpc, get_latest_block_height, get_block_info,        *)
(* get_accounts, get_transaction_receipts, get_account_stake_balance,      *)
(* get_validators_info                                                     *)
(*                                                                         *)
(* rpc.primary and rpc.secondary hold the outcome of the attempts of the   *)
(* current round (the last round, once the operation returned);            *)
(* rpc.rounds counts the rounds in which both attempts failed; rpc.sleeps  *)
(* lists the seconds slept by the call so far.                             *)

GatewayOps ==
    { "latest_final_height", "block_at", "get_accounts", "tx_status",
      "get_account", "validators" }

\* What one endpoint answers to one request.  "RpcError" is a JSON-RPC
\* error response other than UNKNOWN_BLOCK, "Decode" a response body that
\* cannot be decoded, "Transport" a failed connection.
EndpointOutcomes ==
    { "Ok", "UNKNOWN_BLOCK", "TooManyRequests", "Transport", "Decode", "RpcError" }

\* UNKNOWN_BLOCK answers a request that addresses a block by height
OutcomesOf(op) ==
    IF op \in { "block_at", "get_accounts", "get_account" }
    THEN EndpointOutcomes
    ELSE EndpointOutcomes \ { "UNKNOWN_BLOCK" }

\* The validators call posts raw JSON-RPC over HTTP: no block is addressed.
HttpOutcomes == { "Ok", "TooManyRequests", "Transport", "Decode", "RpcError" }

MAX_RETRIES_BLOCK == 5

MAX_RETRIES_VALIDATORS == 3

BACKOFF_START_BLOCK == 1

BACKOFF_START_VALIDATORS == 5

ACCOUNTS_LIMIT == 1000

\* bounds: the greatest height get_block_info may probe, and the number of
\* full pages get_accounts may read
MaxBlockHeight == 3

MaxAccountPages == 2

BlockView(h) == [ height |-> h ]

InitGateway ==
    /\ RewardsIdle
    /\ SyncIdle
    /\ TxIdle
    /\ \E op \in GatewayOps, h \in 0..MaxBlockHeight :
          /\ op # "block_at" => h = 0
          /\ rpc = [ pc |-> "primary", op |-> op, height |-> h,
                     current_height |-> h, from_index |-> 0,
                     max_retries |-> CASE op = "validators" -> MAX_RETRIES_VALIDATORS
                                       [] op = "block_at"   -> MAX_RETRIES_BLOCK
                                       [] OTHER             -> 0,
                     retry_count |-> 0,
                     backoff_time |-> CASE op = "validators" -> BACKOFF_START_VALIDATORS
                                        [] op = "block_at"   -> BACKOFF_START_BLOCK
                                        [] OTHER             -> 0,
                     primary |-> "none", secondary |-> "none",
                     rounds |-> 0, sleeps |-> << >>, result |-> None ]

\* the loop of get_block_info (and of get_validators_info) starts over
NextRound(r) == [ r EXCEPT !.pc = "primary" ]

\* get_block_info, Ok arm, returning the requested height instead of the
\* height that was served
get_block_info_ok_requested(r) ==
    [ r EXCEPT !.pc = "ok",
               !.result = Some(<< r.height, BlockView(r.current_height) >>) ]

\* get_block_info, Ok arm: return Ok((current_height, block))
get_block_info_ok(r) ==
    [ r EXCEPT !.pc = "ok",
               !.result = Some(<< r.current_height, BlockView(r.current_height) >>) ]

\* get_block_info, Err arm, with UNKNOWN_BLOCK handled as any other error
get_block_info_err_counted(r, e) ==
    IF r.retry_count + 1 >= r.max_retries
    THEN NextRound([ r EXCEPT !.current_height = @ + 1,
                              !.retry_count = 0,
                              !.backoff_time = BACKOFF_START_BLOCK ])
    ELSE NextRound([ r EXCEPT !.retry_count = @ + 1,
                              !.sleeps = Append(@, r.backoff_time),
                              !.backoff_time = @ * 2 ])

\* get_block_info, Err arm, moving to the next height after the last retry
\* without resetting the backoff
get_block_info_err_keep_backoff(r, e) ==
    IF e = "UNKNOWN_BLOCK"
    THEN NextRound([ r EXCEPT !.current_height = @ + 1,
                              !.retry_count = 0,
                              !.backoff_time = BACKOFF_START_BLOCK ])
    ELSE IF r.retry_count + 1 >= r.max_retries
         THEN NextRound([ r EXCEPT !.current_height = @ + 1,
                                   !.retry_count = 0 ])
         ELSE NextRound([ r EXCEPT !.retry_count = @ + 1,
                                   !.sleeps = Append(@, r.backoff_time),
                                   !.backoff_time = @ * 2 ])

\* get_block_info, Err arm: e is the error query_rpc returned
get_block_info_err(r, e) ==
    IF e = "UNKNOWN_BLOCK"
    THEN NextRound([ r EXCEPT !.current_height = @ + 1,
                              !.retry_count = 0,
                              !.backoff_time = BACKOFF_START_BLOCK ])
    ELSE IF e = "TooManyRequests"
    THEN IF r.retry_count + 1 >= r.max_retries
         THEN NextRound([ r EXCEPT !.current_height = @ + 1,
                                   !.retry_count = 0,
                                   !.backoff_time = BACKOFF_START_BLOCK ])
         ELSE NextRound([ r EXCEPT !.retry_count = @ + 1,
                                   !.sleeps = Append(@, r.backoff_time),
                                   !.backoff_time = @ * 2 ])
    ELSE IF r.retry_count + 1 >= r.max_retries
         THEN NextRound([ r EXCEPT !.current_height = @ + 1,
                                   !.retry_count = 0,
                                   !.backoff_time = BACKOFF_START_BLOCK ])
         ELSE NextRound([ r EXCEPT !.retry_count = @ + 1,
                                   !.sleeps = Append(@, r.backoff_time),
                                   !.backoff_time = @ * 2 ])

\* get_accounts after a served page: a page shorter than the limit ends the
\* loop, a full page moves from_index on
get_accounts_page(r, full) ==
    IF full
    THEN NextRound([ r EXCEPT !.from_index = @ + ACCOUNTS_LIMIT ])
    ELSE [ r EXCEPT !.pc = "ok", !.result = Some("accounts") ]

\* what the caller of query_rpc (or of the two direct calls) does with Ok
OnRpcOk(r, full) ==
    CASE r.op = "block_at"     -> get_block_info_ok(r)
      [] r.op = "get_accounts" -> get_accounts_page(r, full)
      [] OTHER                 -> [ r EXCEPT !.pc = "ok", !.result = Some("response") ]

\* what the caller does with the Err of a round in which both attempts
\* failed: only get_block_info loops, every other caller returns it (`?`)
OnRpcErr(r, e) ==
    LET failed == [ r EXCEPT !.rounds = @ + 1 ]
    IN  IF r.op = "block_at"
        THEN get_block_info_err(failed, e)
        ELSE [ failed EXCEPT !.pc = "err" ]

\* query_rpc: primary_client.call(method); also the primary call of
\* get_transaction_receipts and of get_account_stake_balance
CallPrimary ==
    /\ rpc.pc = "primary"
    /\ rpc.op # "validators"
    /\ \E o \in OutcomesOf(rpc.op), full \in BOOLEAN :
          LET r == [ rpc EXCEPT !.primary = o, !.secondary = "none" ]
          IN  /\ o = "Ok" /\ full => r.op = "get_accounts" /\
                     r.from_index < MaxAccountPages * ACCOUNTS_LIMIT
              /\ o # "Ok" => ~full
              /\ rpc' = IF o = "Ok" THEN OnRpcOk(r, full)
                        ELSE [ r EXCEPT !.pc = "secondary" ]
    /\ UNCHANGED << rewardsVars, syncVars, txVars >>

\* query_rpc: Err(_) => secondary_client.call(fallback()); also the
\* secondary call of the two direct callers
CallSecondary ==
    /\ rpc.pc = "secondary"
    /\ rpc.op # "validators"
    /\ \E o \in OutcomesOf(rpc.op), full \in BOOLEAN :
          LET r == [ rpc EXCEPT !.secondary = o ]
          IN  /\ o = "Ok" /\ full => r.op = "get_accounts" /\
                     r.from_index < MaxAccountPages * ACCOUNTS_LIMIT
              /\ o # "Ok" => ~full
              /\ rpc' = IF o = "Ok" THEN OnRpcOk(r, full) ELSE OnRpcErr(r, o)
              /\ rpc'.current_height <= MaxBlockHeight
    /\ UNCHANGED << rewardsVars, syncVars, txVars >>

\* get_validators_info: the body of a response that is not a 429 is decoded
\* with `?`; whatever decodes is returned, an error response included
validators_response(r, o) ==
    IF o = "Decode"
    THEN [ r EXCEPT !.pc = "err" ]
    ELSE [ r EXCEPT !.pc = "ok", !.result = Some("json") ]

\* get_validators_info: post to the primary endpoint
ValidatorsPrimary ==
    /\ rpc.pc = "primary"
    /\ rpc.op = "validators"
    /\ \E o \in HttpOutcomes :
          LET r == [ rpc EXCEPT !.primary = o, !.secondary = "none" ]
          IN  rpc' = IF o \in { "TooManyRequests", "Transport" }
                     THEN [ r EXCEPT !.pc = "secondary" ]
                     ELSE validators_response(r, o)
    /\ UNCHANGED << rewardsVars, syncVars, txVars >>

\* the same step backing off before the retry count is compared
ValidatorsSecondary_sleep_first ==
    /\ rpc.pc = "secondary"
    /\ rpc.op = "validators"
    /\ \E o \in HttpOutcomes :
          LET r == [ rpc EXCEPT !.secondary = o ]
          IN  rpc' = IF o \in { "TooManyRequests", "Transport" }
                     THEN IF r.retry_count + 1 >= r.max_retries
                          THEN [ r EXCEPT !.retry_count = @ + 1, !.rounds = @ + 1,
                                          !.sleeps = Append(@, r.backoff_time),
                                          !.pc = "err" ]
                          ELSE NextRound([ r EXCEPT !.retry_count = @ + 1,
                                                    !.rounds = @ + 1,
                                                    !.sleeps = Append(@, r.backoff_time),
                                                    !.backoff_time = @ * 2 ])
                     ELSE validators_response(r, o)
    /\ UNCHANGED << rewardsVars, syncVars, txVars >>

\* get_validators_info: post to the secondary endpoint, then back off
ValidatorsSecondary ==
    /\ rpc.pc = "secondary"
    /\ rpc.op = "validators"
    /\ \E o \in HttpOutcomes :
          LET r == [ rpc EXCEPT !.secondary = o ]
          IN  rpc' = IF o \in { "TooManyRequests", "Transport" }
                     THEN IF r.retry_count + 1 >= r.max_retries
                          THEN [ r EXCEPT !.retry_count = @ + 1, !.rounds = @ + 1,
                                          !.pc = "err" ]
                          ELSE NextRound([ r EXCEPT !.retry_count = @ + 1,
                                                    !.rounds = @ + 1,
                                                    !.sleeps = Append(@, r.backoff_time),
                                                    !.backoff_time = @ * 2 ])
                     ELSE validators_response(r, o)
    /\ UNCHANGED << rewardsVars, syncVars, txVars >>

NextGateway ==
    \/ CallPrimary
    \/ CallSecondary
    \/ ValidatorsPrimary
    \/ ValidatorsSecondary

SpecGateway == InitGateway /\ [][NextGateway]_vars

----------------------------------------------------------------------------
(* Claims about the RPC gateway                                            *)

\* a completed call of get_block_info returns (a, block) with a at least the
\* requested height and block the block served for height a
C4_ReturnedBlock ==
    rpc.pc = "ok" /\ rpc.op = "block_at" =>
        /\ Unwrap(rpc.result)[1] >= rpc.height
        /\ Unwrap(rpc.result)[2] = BlockView(Unwrap(rpc.result)[1])
        /\ "Ok" \in { rpc.primary, rpc.secondary }

\* a step of get_block_info in which query_rpc returned UNKNOWN_BLOCK moves
\* the probed height up by exactly 1 and reissues the request on the
\* primary, with no sleep and no retry counted
C4_UnknownBlockStep ==
    rpc.pc = "secondary" /\ rpc.op = "block_at" /\ rpc'.secondary = "UNKNOWN_BLOCK" =>
        /\ rpc'.current_height = rpc.current_height + 1
        /\ rpc'.pc = "primary"
        /\ rpc'.sleeps = rpc.sleeps
        /\ rpc'.retry_count <= rpc.retry_count

\* C4: gap-tolerant read.  Every completed block_at(h) returns (a, block)
\* with a >= h and block the block served for height a, and every
\* UNKNOWN_BLOCK error advances the probed height by exactly 1 and reissues
\* the request without sleeping and without consuming retry budget.
C4_GapTolerantRead == [] C4_ReturnedBlock /\ [][C4_UnknownBlockStep]_vars

\* C4 witness: block_at(0) returned the block of height 2 after two
\* UNKNOWN_BLOCK answers, without having slept.
C4_Witness ==
    /\ rpc.pc = "ok"
    /\ rpc.op = "block_at"
    /\ rpc.height = 0
    /\ rpc.result = Some(<< 2, BlockView(2) >>)
    /\ rpc.rounds = 2
    /\ rpc.sleeps = << >>

\* the retry budget of an operation: 5 rounds, 3 for validators
RetryBudget(op) == IF op = "validators" THEN 3 ELSE 5

\* C5 as stated: an operation surfaces an error to its caller only after
\* its retry budget is exhausted; a round in which both the primary and the
\* secondary attempt failed is followed by a backoff and another round, not
\* directly by an error return.
C5_AsStated ==
    rpc.pc = "err" /\ rpc.primary # "none" /\ rpc.secondary \notin { "none", "Ok" } =>
        rpc.rounds >= RetryBudget(rpc.op)

PrimaryFailed == rpc.primary \notin { "none", "Ok" }

RoundComplete ==
    \/ rpc.pc \in { "ok", "err" }
    \/ rpc.pc = "primary" /\ rpc.primary # "none"

\* C6 as stated: in every round the secondary endpoint is attempted if and
\* only if the primary attempt of that round failed, whatever the failure;
\* a primary success is returned without contacting the secondary.
C6_AsStated ==
    /\ rpc.secondary # "none" => PrimaryFailed
    /\ RoundComplete /\ PrimaryFailed => rpc.secondary # "none"

----------------------------------------------------------------------------
(* Epoch discoverer: get_epoch_data, find_epoch_boundary,                  *)
(* find_boundary_linear                                                    *)
(*                                                                         *)
(* The chain oracle: heights 0..MaxHeight; chain.boundaries are the        *)
(* heights at which a new epoch starts, chain.missing the heights that     *)
(* have no block (skipped slots), chain.latest_final the height the        *)
(* finality query returns.  Blocks above latest_final exist up to          *)
(* MaxHeight (the head is ahead of the final block, and the chain grows    *)
(* during a run).  Here get_block_info is taken on endpoints that answer   *)
(* every request: it returns the first existing block at or above the      *)
(* requested height, and never returns when there is none (it advances     *)
(* over UNKNOWN_BLOCK for ever); its retries are the gateway's part.       *)
(* Epoch ids are numbers: the program only compares them.  A block's       *)
(* timestamp is its height.                                                *)

\* bounds of the chain oracle
MaxHeight == 12

MinEpochLen == 3

MaxGap == 4

MaxStart == 2

MaxTipLag == 2

\* the configured epoch length (config.epoch_blocks), scaled down
EPOCH_BLOCKS == 4

\* find_epoch_boundary switches to the linear scan at this width
LINEAR_WIDTH == 5

Heights == 0..MaxHeight

BoundarySets ==
    { B \in SUBSET (1..MaxHeight) :
        \A a \in B, b \in B : a < b => b - a >= MinEpochLen }

MissingSets ==
    { {} } \cup
    { { h \in Heights : g <= h /\ h < g + len } : g \in 1..MaxHeight, len \in 1..MaxGap }

\* header.epoch_id of the block at height h
EpochIdAt(h) == Cardinality({ b \in chain.boundaries : b <= h })

Exists(h) == h \in Heights /\ h \notin chain.missing

Block(h) == [ height |-> h, epoch_id |-> EpochIdAt(h), timestamp |-> h ]

\* get_block_info(height) on endpoints that answer: Some((actual, block)), or
\* None when no block exists at or above height (the call never returns)
BlockAt(height) ==
    IF \E a \in Heights : a >= height /\ Exists(a)
    THEN LET actual == CHOOSE a \in Heights :
                           /\ a >= height /\ Exists(a)
                           /\ \A b \in Heights : b >= height /\ Exists(b) => a <= b
         IN  Some(<< actual, Block(actual) >>)
    ELSE None

EpochInfo(start_block, end_block, epoch_id, timestamp) ==
    [ start_block |-> start_block, end_block |-> Some(end_block),
      epoch_id |-> epoch_id, timestamp |-> timestamp ]

\* get_epoch_data is entered with start_block_height
ged_enter(start_block_height) ==
    [ pc |-> "latest", start_block_height |-> start_block_height,
      current_block |-> 0, current_height |-> 0, current_epoch_id |-> 0,
      epoch_start_block |-> 0, epoch_timestamp |-> 0, epochs |-> << >> ]

InitDiscover ==
    /\ RewardsIdle
    /\ GatewayIdle
    /\ TxIdle
    /\ epoch_sync = {}
    /\ gos = gosIdle
    /\ feb = febIdle
    /\ \E B \in BoundarySets, M \in MissingSets,
          tip \in (MaxHeight - MaxTipLag)..MaxHeight, start \in 0..MaxStart :
          /\ tip \notin M
          /\ start \notin M
          /\ chain = [ boundaries |-> B, missing |-> M, latest_final |-> tip ]
          /\ ged = ged_enter(start)

\* get_epoch_data: current_block = get_latest_block_height(..)
GedLatestBlock ==
    /\ ged.pc = "latest"
    /\ ged' = [ ged EXCEPT !.pc = "initial", !.current_block = chain.latest_final ]
    /\ UNCHANGED << rewardsVars, gatewayVars, txVars, chain, epoch_sync, gos, feb >>

\* get_epoch_data: the initial block and the tracking variables
GedInitialBlock ==
    /\ ged.pc = "initial"
    /\ LET got == BlockAt(ged.start_block_height)
       IN  ged' = IF IsSome(got)
                  THEN [ ged EXCEPT !.pc = "loop",
                                    !.current_height = ged.start_block_height,
                                    !.current_epoch_id = Unwrap(got)[2].epoch_id,
                                    !.epoch_start_block = ged.start_block_height,
                                    !.epoch_timestamp = Unwrap(got)[2].timestamp ]
                  ELSE [ ged EXCEPT !.pc = "hung" ]
    /\ UNCHANGED << rewardsVars, gatewayVars, txVars, chain, epoch_sync, gos, feb >>

\* get_epoch_data: the head of the while loop, up to the call of
\* find_epoch_boundary
GedLoop ==
    /\ ged.pc = "loop"
    /\ LET estimated_next_epoch_start == ged.current_height + EPOCH_BLOCKS
       IN  IF ged.current_height < ged.current_block
              /\ ~(estimated_next_epoch_start >= ged.current_block)
           THEN /\ ged' = [ ged EXCEPT !.pc = "find" ]
                /\ feb' = [ pc |-> "bisect",
                            low |-> ged.current_height,
                            high |-> estimated_next_epoch_start + EPOCH_BLOCKS \div 2,
                            current_epoch_id |-> ged.current_epoch_id,
                            current |-> 0, end_block |-> 0, result |-> 0 ]
           ELSE /\ ged' = [ ged EXCEPT !.pc = "final" ]
                /\ feb' = feb
    /\ UNCHANGED << rewardsVars, gatewayVars, txVars, chain, epoch_sync, gos >>

\* find_epoch_boundary: one turn of `while low <= high`
FebBisect ==
    /\ feb.pc = "bisect"
    /\ IF ~(feb.low <= feb.high)
       THEN feb' = [ feb EXCEPT !.pc = "returned", !.result = feb.low ]
       ELSE IF feb.high - feb.low <= LINEAR_WIDTH
       THEN feb' = [ feb EXCEPT !.pc = "linear", !.current = feb.low,
                                !.end_block = feb.high ]
       ELSE LET mid == feb.low + (feb.high - feb.low) \div 2
                got == BlockAt(mid)
            IN  IF ~IsSome(got)
                THEN feb' = [ feb EXCEPT !.pc = "hung" ]
                ELSE LET actual_height == Unwrap(got)[1]
                         mid_epoch_id  == Unwrap(got)[2].epoch_id
                     IN  IF mid_epoch_id = feb.current_epoch_id
                         THEN feb' = [ feb EXCEPT !.low = actual_height + 1 ]
                         ELSE feb' = [ feb EXCEPT !.high = actual_height - 1 ]
    /\ UNCHANGED << rewardsVars, gatewayVars, txVars, chain, epoch_sync, gos, ged >>

\* the same scan giving end_block when no height of the range differs
FebLinear_end_block ==
    /\ feb.pc = "linear"
    /\ IF ~(feb.current <= feb.end_block)
       THEN feb' = [ feb EXCEPT !.pc = "returned", !.result = feb.end_block ]
       ELSE LET got == BlockAt(feb.current)
            IN  IF ~IsSome(got)
                THEN feb' = [ feb EXCEPT !.pc = "hung" ]
                ELSE IF Unwrap(got)[2].epoch_id # feb.current_epoch_id
                     THEN feb' = [ feb EXCEPT !.pc = "returned",
                                              !.result = feb.current ]
                     ELSE feb' = [ feb EXCEPT !.current = @ + 1 ]
    /\ UNCHANGED << rewardsVars, gatewayVars, txVars, chain, epoch_sync, gos, ged >>

\* find_boundary_linear: one turn of `while current <= end_block`
FebLinear ==
    /\ feb.pc = "linear"
    /\ IF ~(feb.current <= feb.end_block)
       THEN feb' = [ feb EXCEPT !.pc = "returned", !.result = feb.end_block + 1 ]
       ELSE LET got == BlockAt(feb.current)
            IN  IF ~IsSome(got)
                THEN feb' = [ feb EXCEPT !.pc = "hung" ]
                ELSE IF Unwrap(got)[2].epoch_id # feb.current_epoch_id
                     THEN feb' = [ feb EXCEPT !.pc = "returned",
                                              !.result = feb.current ]
                     ELSE feb' = [ feb EXCEPT !.current = @ + 1 ]
    /\ UNCHANGED << rewardsVars, gatewayVars, txVars, chain, epoch_sync, gos, ged >>

\* get_epoch_data: after find_epoch_boundary returned, read the boundary
\* block, record the current epoch and move to the next
GedBoundary ==
    /\ ged.pc = "find"
    /\ feb.pc = "returned"
    /\ LET boundary == feb.result
           got      == BlockAt(boundary)
       IN  ged' = IF ~IsSome(got)
                  THEN [ ged EXCEPT !.pc = "hung" ]
                  ELSE [ ged EXCEPT
                           !.pc = "loop",
                           !.epochs = Append(@, EpochInfo(ged.epoch_start_block,
                                                 boundary - 1, ged.current_epoch_id,
                                                 ged.epoch_timestamp)),
                           !.current_height = boundary,
                           !.current_epoch_id = Unwrap(got)[2].epoch_id,
                           !.epoch_start_block = boundary,
                           !.epoch_timestamp = Unwrap(got)[2].timestamp ]
    /\ feb' = febIdle
    /\ UNCHANGED << rewardsVars, gatewayVars, txVars, chain, epoch_sync, gos >>

\* get_epoch_data: the final partial epoch and the return
GedFinal ==
    /\ ged.pc = "final"
    /\ ged' = [ ged EXCEPT
                  !.pc = "returned",
                  !.epochs = IF ged.epoch_start_block < ged.current_block
                             THEN Append(@, EpochInfo(ged.epoch_start_block,
                                              ged.current_block, ged.current_epoch_id,
                                              ged.epoch_timestamp))
                             ELSE @ ]
    /\ UNCHANGED << rewardsVars, gatewayVars, txVars, chain, epoch_sync, gos, feb >>

NextDiscover ==
    \/ GedLatestBlock
    \/ GedInitialBlock
    \/ GedLoop
    \/ FebBisect
    \/ FebLinear
    \/ GedBoundary
    \/ GedFinal

SpecDiscover == InitDiscover /\ [][NextDiscover]_vars

----------------------------------------------------------------------------
(* Claims about the epoch discoverer                                       *)

\* consecutive epochs of a list are adjacent
Adjacent(epochs) ==
    \A i \in 1..(Len(epochs) - 1) :
        Unwrap(epochs[i].end_block) + 1 = epochs[i + 1].start_block

DistinctIds(epochs) ==
    \A i \in 1..Len(epochs), j \in 1..Len(epochs) :
        i # j => epochs[i].epoch_id # epochs[j].epoch_id

\* C1 as stated: for the list E1..En produced by one run of get_epoch_data,
\* E_i.end_block + 1 = E_{i+1}.start_block for every i < n and the epoch_id
\* values are pairwise distinct, for every chain oracle (an epoch longer than
\* the search window included).
C1_AsStated ==
    ged.pc = "returned" => Adjacent(ged.epochs) /\ DistinctIds(ged.epochs)

\* the adjacency half of C1 alone
DiscoveredAdjacent == ged.pc = "returned" => Adjacent(ged.epochs)

----------------------------------------------------------------------------
(* Epoch synchronisation: get_or_sync_epoch_data and the epoch_sync        *)
(* collection, over successive runs of the program.  epoch_sync is the set *)
(* of its documents.  Between two runs the chain's final height advances.  *)

\* bounds of the runs
MaxRuns == 2

MaxSyncGap == 1

\* save_epoch_sync: update_one with filter epoch_id, $set, upsert
save_epoch_sync(db, epoch_info) ==
    { d \in db : d.epoch_id # epoch_info.epoch_id } \cup { epoch_info }

\* get_latest_epoch_sync: the documents a find sorted by start_block
\* descending, limit 1, can return
get_latest_epoch_sync(db) ==
    { d \in db : \A e \in db : e.start_block <= d.start_block }

get_epoch_sync_count(db) == Cardinality(db)

\* get_epoch_sync_by_index: the documents a find sorted by start_block
\* ascending, skip index, limit 1, can return (none: the result is None)
get_epoch_sync_by_index(db, index) ==
    { d \in db :
        /\ Cardinality({ e \in db : e.start_block < d.start_block }) <= index
        /\ index < Cardinality({ e \in db : e.start_block <= d.start_block }) }

\* get_or_sync_epoch_data is entered with start_block_height
gos_enter(run, start_block_height) ==
    [ pc |-> "start", run |-> run, start_block_height |-> start_block_height,
      latest |-> None, epoch_sync_count |-> 0, path |-> "none",
      new_epochs |-> << >>, i |-> 0, all_epochs |-> << >> ]

InitSync ==
    /\ RewardsIdle
    /\ GatewayIdle
    /\ TxIdle
    /\ epoch_sync = {}
    /\ ged = gedIdle
    /\ feb = febIdle
    /\ \E B \in BoundarySets, M \in MissingSets,
          tip \in (EPOCH_BLOCKS + 1)..MaxHeight, start \in 0..MaxStart :
          /\ Cardinality(M) <= MaxSyncGap
          /\ tip \notin M
          /\ start \notin M
          /\ chain = [ boundaries |-> B, missing |-> M, latest_final |-> tip ]
          /\ gos = gos_enter(1, start)

\* get_or_sync_epoch_data: read the latest document and the count; with no
\* document, start the fresh discovery
GosReadStore ==
    /\ gos.pc = "start"
    /\ IF epoch_sync = {}
       THEN /\ gos' = [ gos EXCEPT !.pc = "discover", !.path = "fresh" ]
            /\ ged' = ged_enter(gos.start_block_height)
       ELSE /\ \E latest \in get_latest_epoch_sync(epoch_sync) :
                  gos' = [ gos EXCEPT !.pc = "latest_height",
                                      !.latest = Some(latest),
                                      !.epoch_sync_count =
                                          get_epoch_sync_count(epoch_sync) ]
            /\ ged' = ged
    /\ UNCHANGED << rewardsVars, gatewayVars, txVars, chain, epoch_sync, feb >>

\* get_or_sync_epoch_data: the latest height decides between the resume and
\* the persisted list
GosLatestHeight ==
    /\ gos.pc = "latest_height"
    /\ LET current_block == chain.latest_final
           latest        == Unwrap(gos.latest)
       IN  IF current_block - latest.start_block > EPOCH_BLOCKS
           THEN /\ gos' = [ gos EXCEPT !.pc = "discover", !.path = "resume" ]
                /\ ged' = ged_enter(latest.start_block)
           ELSE /\ gos' = [ gos EXCEPT !.pc = "assemble", !.path = "existing",
                                       !.i = 0 ]
                /\ ged' = ged
    /\ UNCHANGED << rewardsVars, gatewayVars, txVars, chain, epoch_sync, feb >>

\* get_or_sync_epoch_data: get_epoch_data returned
GosDiscovered ==
    /\ gos.pc = "discover"
    /\ ged.pc = "returned"
    /\ gos' = [ gos EXCEPT !.pc = "save", !.new_epochs = ged.epochs, !.i = 0 ]
    /\ ged' = gedIdle
    /\ UNCHANGED << rewardsVars, gatewayVars, txVars, chain, epoch_sync, feb >>

\* get_or_sync_epoch_data: one turn of `for epoch in &new_epochs`, and what
\* follows the loop
GosSave ==
    /\ gos.pc = "save"
    /\ IF gos.i < Len(gos.new_epochs)
       THEN /\ epoch_sync' = save_epoch_sync(epoch_sync, gos.new_epochs[gos.i + 1])
            /\ gos' = [ gos EXCEPT !.i = @ + 1 ]
       ELSE /\ epoch_sync' = epoch_sync
            /\ gos' = IF gos.path = "fresh"
                      THEN [ gos EXCEPT !.pc = "returned",
                                        !.all_epochs = gos.new_epochs ]
                      ELSE [ gos EXCEPT !.pc = "assemble", !.i = 0 ]
    /\ UNCHANGED << rewardsVars, gatewayVars, txVars, chain, ged, feb >>

\* get_or_sync_epoch_data: one turn of `for i in 0..epoch_sync_count`, and
\* what follows the loop
GosReadIndex ==
    /\ gos.pc = "assemble"
    /\ IF gos.i < gos.epoch_sync_count
       THEN LET found == get_epoch_sync_by_index(epoch_sync, gos.i)
            IN  IF found = {}
                THEN gos' = [ gos EXCEPT !.i = @ + 1 ]
                ELSE \E epoch \in found :
                        gos' = [ gos EXCEPT !.i = @ + 1,
                                            !.all_epochs = Append(@, epoch) ]
       ELSE gos' = [ gos EXCEPT
                       !.pc = "returned",
                       !.all_epochs = IF gos.path = "resume"
                                      THEN @ \o gos.new_epochs ELSE @ ]
    /\ UNCHANGED << rewardsVars, gatewayVars, txVars, chain, epoch_sync, ged, feb >>

\* the program is run again later: the final height has advanced.  The new
\* start_block_height is read only when the collection is empty.
GosNextRun ==
    /\ gos.pc = "returned"
    /\ gos.run < MaxRuns
    /\ \E tip \in chain.latest_final..MaxHeight, start \in 0..MaxStart :
          /\ tip \notin chain.missing
          /\ start \notin chain.missing
          /\ epoch_sync # {} => start = gos.start_block_height
          /\ chain' = [ chain EXCEPT !.latest_final = tip ]
          /\ gos' = gos_enter(gos.run + 1, start)
    /\ UNCHANGED << rewardsVars, gatewayVars, txVars, epoch_sync, ged, feb >>

NextSync ==
    \/ GosReadStore
    \/ GosLatestHeight
    \/ GedLatestBlock
    \/ GedInitialBlock
    \/ GedLoop
    \/ FebBisect
    \/ FebLinear
    \/ GedBoundary
    \/ GedFinal
    \/ GosDiscovered
    \/ GosSave
    \/ GosReadIndex
    \/ GosNextRun

SpecSync == InitSync /\ [][NextSync]_vars

----------------------------------------------------------------------------
(* Claims about the epoch synchronisation                                  *)

StrictlyIncreasingStart(epochs) ==
    \A i \in 1..(Len(epochs) - 1) :
        epochs[i].start_block < epochs[i + 1].start_block

\* C2 as stated: the list get_or_sync_epoch_data returns has strictly
\* increasing start_block values and every element with a successor has
\* end_block = successor.start_block - 1, on the fresh, the persisted and the
\* resume path.
C2_AsStated ==
    gos.pc = "returned" =>
        /\ StrictlyIncreasingStart(gos.all_epochs)
        /\ Adjacent(gos.all_epochs)

\* the same on the fresh path alone
FreshListOrdered ==
    gos.pc = "returned" /\ gos.path = "fresh" =>
        /\ StrictlyIncreasingStart(gos.all_epochs)
        /\ Adjacent(gos.all_epochs)

\* the same on the path that takes the persisted list as complete
ExistingListOrdered ==
    gos.pc = "returned" /\ gos.path = "existing" =>
        /\ StrictlyIncreasingStart(gos.all_epochs)
        /\ Adjacent(gos.all_epochs)

\* a resume that returned a list without a repeated start_block
ResumeListOrdered ==
    gos.pc = "returned" /\ gos.path = "resume" /\ gos.all_epochs # << >>
        /\ StrictlyIncreasingStart(gos.all_epochs)

----------------------------------------------------------------------------
(* Strings of the classifier.  A string is the sequence of its characters; *)
(* Chars turns a literal into that sequence.                               *)

Chars(s) == [ i \in 1..Len(s) |-> SubSeq(s, i, i) ]

\* Result<T, E>
Ok(v) == << "Ok", v >>

Err(e) == << "Err", e >>

IsOk(r) == r[1] = "Ok"

Val(r) == r[2]

\* char::is_whitespace, for the characters of the inputs
IsWhitespace(c) == c \in { " ", "\t", "\n", "\r" }

RECURSIVE trim_start_matching(_, _)
trim_start_matching(s, C) ==
    IF Len(s) > 0 /\ s[1] \in C THEN trim_start_matching(Tail(s), C) ELSE s

RECURSIVE trim_end_matching(_, _)
trim_end_matching(s, C) ==
    IF Len(s) > 0 /\ s[Len(s)] \in C
    THEN trim_end_matching(SubSeq(s, 1, Len(s) - 1), C) ELSE s

\* str::trim
trim(s) ==
    trim_end_matching(trim_start_matching(s, { " ", "\t", "\n", "\r" }),
                      { " ", "\t", "\n", "\r" })

\* str::trim_matches(c)
trim_matches(s, c) == trim_end_matching(trim_start_matching(s, { c }), { c })

\* str::split(c).next(): the part before the first c
RECURSIVE split_next(_, _)
split_next(s, c) ==
    IF Len(s) = 0 \/ s[1] = c THEN << >>
    ELSE << s[1] >> \o split_next(Tail(s), c)

\* str::contains(sub)
Contains(s, sub) ==
    \E i \in 1..(Len(s) - Len(sub) + 1) : SubSeq(s, i, i + Len(sub) - 1) = sub

\* str::split_whitespace: the non-empty maximal runs of non-whitespace
RECURSIVE first_word(_)
first_word(u) ==
    IF Len(u) = 0 \/ IsWhitespace(u[1]) THEN << >>
    ELSE << u[1] >> \o first_word(Tail(u))

RECURSIVE split_whitespace(_)
split_whitespace(s) ==
    LET t == trim_start_matching(s, { " ", "\t", "\n", "\r" })
    IN  IF Len(t) = 0 THEN << >>
        ELSE << first_word(t) >>
             \o split_whitespace(SubSeq(t, Len(first_word(t)) + 1, Len(t)))

\* ASCII lower case of the letters that matter to f64::from_str
Lower(c) ==
    CASE c = "I" -> "i" [] c = "N" -> "n" [] c = "F" -> "f" [] c = "T" -> "t"
      [] c = "Y" -> "y" [] c = "A" -> "a" [] c = "E" -> "e" [] OTHER -> c

\* part.parse::<f64>().is_ok(): an optional sign, then inf, infinity or nan
\* in any case, or digits with at most one point and at least one digit,
\* then an optional exponent (e or E, optional sign, one or more digits)
ParsesAsF64(part) ==
    LET unsigned == IF Len(part) > 0 /\ part[1] \in { "+", "-" }
                    THEN Tail(part) ELSE part
        lower    == [ i \in 1..Len(unsigned) |-> Lower(unsigned[i]) ]
        mantissa == split_next(lower, "e")
        exponent == SubSeq(lower, Len(mantissa) + 2, Len(lower))
        integral == split_next(mantissa, ".")
        fraction == SubSeq(mantissa, Len(integral) + 2, Len(mantissa))
        digits(d) == \A i \in 1..Len(d) : IsDigit(d[i])
    IN  \/ lower \in { Chars("inf"), Chars("infinity"), Chars("nan") }
        \/ /\ digits(integral) /\ digits(fraction)
           /\ Len(integral) + Len(fraction) > 0
           /\ \/ Len(mantissa) = Len(lower)
              \/ /\ Len(exponent) > 0
                 /\ LET e == IF exponent[1] \in { "+", "-" }
                             THEN Tail(exponent) ELSE exponent
                    IN  Len(e) > 0 /\ digits(e)

\* serde_json::from_str on an object of string members without escapes,
\* {"k":"v",...}: the members as a sequence of << key, value >>, or None for
\* a text that is not such an object
RECURSIVE json_members(_)
json_members(s) ==
    \* s is what follows '{' or ','; the result is Some(members) or None
    IF Len(s) < 2 \/ s[1] # "\"" THEN None
    ELSE LET key   == split_next(Tail(s), "\"")
             after == SubSeq(s, Len(key) + 3, Len(s))
         IN  IF Len(after) < 3 \/ after[1] # ":" \/ after[2] # "\"" THEN None
             ELSE LET value == split_next(SubSeq(after, 3, Len(after)), "\"")
                      rest  == SubSeq(after, Len(value) + 4, Len(after))
                  IN  IF Len(key) + 2 > Len(s) - 1 \/ Len(value) + 3 > Len(after)
                      THEN None
                      ELSE IF rest = << "}" >> THEN Some(<< << key, value >> >>)
                      ELSE IF Len(rest) > 0 /\ rest[1] = ","
                           THEN LET more == json_members(Tail(rest))
                                IN  IF IsSome(more)
                                    THEN Some(<< << key, value >> >> \o Unwrap(more))
                                    ELSE None
                           ELSE None

serde_json_from_str(s) ==
    IF s = Chars("{}") THEN Some(<< >>)
    ELSE IF Len(s) > 0 /\ s[1] = "{" THEN json_members(Tail(s))
    ELSE None

\* value[key].as_str() on a parsed object: the last member named key
json_get_str(members, key) ==
    LET hits == { i \in 1..Len(members) : members[i][1] = key }
    IN  IF hits = {} THEN None
        ELSE Some(members[CHOOSE i \in hits : \A j \in hits : j <= i][2])

\* Option::unwrap_or
unwrap_or(o, d) == IF IsSome(o) THEN Unwrap(o) ELSE d

\* Option::or_else
or_else(o, p) == IF IsSome(o) THEN o ELSE p

----------------------------------------------------------------------------
(* Transaction classifier: transaction_fetcher.rs                          *)
(*                                                                         *)
(* A raw transaction (one row of the history API) is a record              *)
(*   transaction_hash, block.block_height, block_timestamp,                *)
(*   predecessor_account_id, signer_id,                                    *)
(*   method   = actions[0].method as an Option,                            *)
(*   deposit  = actions_agg.deposit.as_str() as an Option,                 *)
(*   block_height = the top-level block_height as an Option,               *)
(*   tx_data  = what the transaction-status query returns for the hash.    *)
(* A receipt of tx_data.receipts_outcome has logs (outcome.logs) and       *)
(* actions (receipt.Action.actions), each action an Option of its          *)
(* FunctionCall [method_name, deposit, args].  env holds the answers of    *)
(* the endpoints while one transaction is classified: env.status of the    *)
(* transaction-status query, env.balance of the get_account view call, and *)
(* env.overflow, what the build does on u64 overflow.                      *)

NANOS_PER_SECOND == 1000000000

\* an error that is not a Result: the thread panics
Panic(msg) == << "Panic", msg >>

\* the `?` operator: the value of an Ok goes on to K, anything else is what
\* the function returns
Try(r, K(_)) == IF IsOk(r) THEN K(Val(r)) ELSE r

\* str::parse::<i64> (inputs stay far below the i64 range)
parse_i64(s) == BigIntFromStr(s)

\* the same function without the cut at the decimal point
safe_parse_amount_no_split(amount_str) ==
    LET cleaned_str == trim_matches(trim(amount_str), "\"")
        n           == BigIntFromStr(cleaned_str)
    IN  IF IsSome(n) THEN Ok(BigIntToString(Unwrap(n))) ELSE Err("ParseAmount")

safe_parse_amount(amount_str) ==
    LET cleaned_str == split_next(trim_matches(trim(amount_str), "\""), ".")
        n           == BigIntFromStr(cleaned_str)
    IN  IF IsSome(n) THEN Ok(BigIntToString(Unwrap(n))) ELSE Err("ParseAmount")

StakingAction(action, amount, method) ==
    [ action |-> action, amount |-> amount, method |-> method ]

determine_type(action, method) ==
    CASE action = "unstake" -> "unstake"
      [] action = "stake" -> "stake"
      [] OTHER ->
           IF method \in { "deposit_and_stake", "stake", "distribute_staking" }
           THEN "stake"
           ELSE IF method \in { "unstake", "unstake_all", "withdraw", "withdraw_all" }
                THEN "unstake"
                ELSE "stake"

staking_keywords ==
    << << "deposited", "stake" >>, << "staking", "stake" >>,
       << "unstaking", "unstake" >>, << "withdrew", "unstake" >> >>

\* log.split_whitespace().find(|part| part.parse::<f64>().is_ok())
first_numeric(log) ==
    LET numeric == SelectSeq(split_whitespace(log), ParsesAsF64)
    IN  IF Len(numeric) > 0 THEN Some(numeric[1]) ELSE None

\* parse_staking_log: the loop over staking_keywords, from entry k on
RECURSIVE keywords_loop(_, _, _)
keywords_loop(log, amount, k) ==
    IF k > Len(staking_keywords) THEN None
    ELSE IF Contains(log, Chars(staking_keywords[k][1])) /\ IsSome(amount)
         THEN Some(StakingAction(staking_keywords[k][2], Unwrap(amount), "unknown"))
         ELSE keywords_loop(log, amount, k + 1)

\* parse_staking_log: the record of a dist.stak event
dist_stak(json_log) ==
    StakingAction("stake", unwrap_or(json_get_str(json_log, Chars("amount")), Chars("0")),
                  "distribute_staking")

parse_staking_log(log) ==
    IF Contains(log, Chars("\"event\":\"dist.stak\"")) /\ IsSome(serde_json_from_str(log))
    THEN Some(dist_stak(Unwrap(serde_json_from_str(log))))
    ELSE keywords_loop(log, first_numeric(log), 1)

\* the view call get_account at block_height; the staked_balance of the
\* answer is env.balance
get_account_stake_balance(env, block_height) ==
    Try(env.balance,
        LAMBDA staked_balance : safe_parse_amount(unwrap_or(staked_balance, Chars("0"))))

\* get_unstake_amount: the amount of an unstake call, from its parsed args
unstake_args_amount(transaction, function_call, args) ==
    safe_parse_amount(
        unwrap_or(or_else(json_get_str(args, Chars("amount")),
                  or_else(function_call.deposit, transaction.deposit)), Chars("0")))

\* get_unstake_amount: block_height - 1 on a u64; at 0 the build either
\* panics or wraps to 2^64 - 1, a height no endpoint has a block for
prev_block_balance(transaction, env) ==
    IF unwrap_or(transaction.block_height, 0) = 0
    THEN IF env.overflow = "panic"
         THEN Panic("attempt to subtract with overflow")
         ELSE Err("Rpc")
    ELSE get_account_stake_balance(env, unwrap_or(transaction.block_height, 0) - 1)

get_unstake_amount(transaction, function_call, env) ==
    Try(prev_block_balance(transaction, env),
        LAMBDA balance :
            IF function_call.method_name = "unstake_all" THEN Ok(balance)
            ELSE IF ~IsSome(serde_json_from_str(unwrap_or(function_call.args, Chars("{}"))))
                 THEN Err("Json")
                 ELSE unstake_args_amount(transaction, function_call,
                          Unwrap(serde_json_from_str(
                                     unwrap_or(function_call.args, Chars("{}"))))))

staking_methods ==
    << << "deposit_and_stake", "stake" >>, << "stake", "stake" >>,
       << "unstake", "unstake" >>, << "unstake_all", "unstake" >>,
       << "withdraw", "unstake" >>, << "withdraw_all", "unstake" >>,
       << "distribute_staking", "stake" >> >>

\* analyze_function_call: the action of the first table entry for method
method_action(method) ==
    LET hits == { i \in 1..Len(staking_methods) : staking_methods[i][1] = method }
    IN  IF hits = {} THEN None
        ELSE Some(staking_methods[CHOOSE i \in hits : \A j \in hits : i <= j][2])

\* analyze_function_call: the amount of a staking method
function_call_amount(function_call, transaction, env) ==
    IF function_call.method_name = "unstake" \/ function_call.method_name = "unstake_all"
    THEN get_unstake_amount(transaction, function_call, env)
    ELSE IF Contains(Chars(function_call.method_name), Chars("all"))
         THEN Ok(Chars("all"))
         ELSE Ok(unwrap_or(or_else(function_call.deposit, transaction.deposit),
                           Chars("0")))

analyze_function_call(function_call, transaction, env) ==
    IF ~IsSome(method_action(function_call.method_name)) THEN Ok(None)
    ELSE Try(function_call_amount(function_call, transaction, env),
             LAMBDA amount :
                 Ok(Some(StakingAction(Unwrap(method_action(function_call.method_name)),
                                       amount, function_call.method_name))))

\* analyze_receipt: the loop over the logs
RECURSIVE logs_loop(_)
logs_loop(logs) ==
    IF Len(logs) = 0 THEN None
    ELSE or_else(parse_staking_log(Head(logs)), logs_loop(Tail(logs)))

\* analyze_receipt: the loop over the receipt's actions
RECURSIVE actions_loop(_, _, _)
actions_loop(actions, transaction, env) ==
    IF Len(actions) = 0 THEN Ok(None)
    ELSE IF ~IsSome(Head(actions)) THEN actions_loop(Tail(actions), transaction, env)
    ELSE Try(analyze_function_call(Unwrap(Head(actions)), transaction, env),
             LAMBDA result :
                 IF IsSome(result) THEN Ok(result)
                 ELSE actions_loop(Tail(actions), transaction, env))

\* analyze_receipt: what follows the loop over the logs
after_logs(staking_action, receipt, transaction, env) ==
    IF IsSome(staking_action) THEN Ok(staking_action)
    ELSE actions_loop(receipt.actions, transaction, env)

analyze_receipt(receipt, transaction, env) ==
    after_logs(logs_loop(receipt.logs), receipt, transaction, env)

\* the same step keeping the amount of the last receipt instead of the sum
add_amount_last(acc, action, amount) ==
    CASE action = "stake" ->
           [ acc EXCEPT !.total_stake_amount = amount, !.action = Some("stake") ]
      [] action = "unstake" ->
           [ acc EXCEPT !.total_unstake_amount = amount, !.action = Some("unstake") ]
      [] OTHER -> acc

\* analyze_receipts: one receipt's record added to the totals
add_amount(acc, action, amount) ==
    CASE action = "stake" ->
           [ acc EXCEPT !.total_stake_amount = @ + amount, !.action = Some("stake") ]
      [] action = "unstake" ->
           [ acc EXCEPT !.total_unstake_amount = @ + amount, !.action = Some("unstake") ]
      [] OTHER -> acc

\* analyze_receipts: the loop over receipts_outcome; acc holds
\* total_stake_amount, total_unstake_amount and action
RECURSIVE receipts_loop(_, _, _, _)
receipts_loop(receipts, acc, tx, env) ==
    IF Len(receipts) = 0 THEN Ok(acc)
    ELSE Try(analyze_receipt(Head(receipts), tx, env),
             LAMBDA result :
                 IF ~IsSome(result) THEN receipts_loop(Tail(receipts), acc, tx, env)
                 ELSE Try(safe_parse_amount(Unwrap(result).amount),
                          LAMBDA amount :
                              receipts_loop(Tail(receipts),
                                  add_amount(acc, Unwrap(result).action,
                                             Unwrap(BigIntFromStr(amount))),
                                  tx, env)))

\* analyze_receipts: what follows the loop
after_receipts(acc, tx) ==
    IF IsSome(acc.action)
    THEN Ok(Some(StakingAction(Unwrap(acc.action),
                     IF Unwrap(acc.action) = "stake"
                     THEN BigIntToString(acc.total_stake_amount)
                     ELSE BigIntToString(acc.total_unstake_amount),
                     unwrap_or(tx.method, "unknown"))))
    ELSE Try(safe_parse_amount(unwrap_or(tx.deposit, Chars("0"))),
             LAMBDA deposit :
                 Ok(Some(StakingAction("stake",
                         IF unwrap_or(tx.method, "") = "deposit_and_stake"
                         THEN BigIntToString(Unwrap(BigIntFromStr(deposit)))
                         ELSE deposit,
                         unwrap_or(tx.method, "unknown")))))

analyze_receipts(tx_data, tx, env) ==
    Try(receipts_loop(tx_data.receipts_outcome,
                      [ total_stake_amount |-> 0, total_unstake_amount |-> 0,
                        action |-> None ], tx, env),
        LAMBDA acc : after_receipts(acc, tx))

\* the transaction-status query, primary then secondary
get_transaction_receipts(tx, env) ==
    IF env.status = "Ok" THEN Ok(tx.tx_data) ELSE Err("Rpc")

Transaction(transaction_hash, amount, method, action, type_, block_height, timestamp, delegator_address) ==
    [ transaction_hash |-> transaction_hash, amount |-> amount, method |-> method,
      action |-> action, type_ |-> type_, block_height |-> block_height,
      timestamp |-> timestamp, delegator_address |-> delegator_address ]

\* analyze_staking_transaction: the record built from the StakingAction
staking_transaction(tx, result) ==
    IF ~IsSome(parse_i64(tx.block_timestamp)) THEN Err("ParseInt")
    ELSE Try(safe_parse_amount(result.amount),
             LAMBDA amount :
                 Ok(Some(Transaction(
                     tx.transaction_hash, amount, result.method, result.action,
                     determine_type(result.action, result.method),
                     tx.block.block_height,
                     Unwrap(parse_i64(tx.block_timestamp)) \div NANOS_PER_SECOND,
                     tx.predecessor_account_id))))

analyze_staking_transaction(tx, env) ==
    Try(get_transaction_receipts(tx, env),
        LAMBDA tx_data :
            Try(analyze_receipts(tx_data, tx, env),
                LAMBDA analyzed :
                    IF IsSome(analyzed) THEN staking_transaction(tx, Unwrap(analyzed))
                    ELSE Ok(None)))

----------------------------------------------------------------------------
(* One call of analyze_staking_transaction on inputs drawn from samples    *)

\* log lines of the staking pool, and lines built to meet the keyword table
LogLines ==
    { Chars("@a deposited 5. New unstaked balance is 5"),
      Chars("@a staking 5. Received 5 new staking shares"),
      Chars("@a unstaking 3. Spent 3 staking shares"),
      Chars("@a withdrawing 2. New unstaked balance is 0"),
      Chars("@a withdrew 2"),
      Chars("Contract total staked balance is 9"),
      Chars("unstaking all"),
      Chars("staking 1e3"),
      Chars("staking -4"),
      Chars("{\"event\":\"dist.stak\",\"amount\":\"7\"}") }

AmountStrings == { Chars("4"), Chars("\"12.5\""), Chars("x") }

FunctionCalls ==
    { [ method_name |-> m, deposit |-> None, args |-> None ] :
        m \in { "deposit_and_stake", "stake", "unstake", "unstake_all", "withdraw",
                "withdraw_all", "distribute_staking", "ping" } }
    \cup
    { [ method_name |-> m, deposit |-> Some(Chars("4")), args |-> a ] :
        m \in { "stake", "unstake" },
        a \in { Some(Chars("{\"amount\":\"3\"}")), Some(Chars("eyJ9")) } }

Receipts ==
    { [ logs |-> << l >>, actions |-> << >> ] : l \in LogLines }
    \cup { [ logs |-> << >>, actions |-> << Some(f) >> ] : f \in FunctionCalls }
    \cup { [ logs |-> << >>, actions |-> << None >> ] }

\* the receipts_outcome of one transaction: none, one or two receipts
ReceiptLists ==
    { << >> } \cup { << r >> : r \in Receipts }
    \cup { << r, s >> : r \in Receipts, s \in Receipts }

\* a receipt list in which get_unstake_amount is called
CallsUnstake(receipts) ==
    \E i \in 1..Len(receipts) : \E j \in 1..Len(receipts[i].actions) :
        /\ IsSome(receipts[i].actions[j])
        /\ Unwrap(receipts[i].actions[j]).method_name \in { "unstake", "unstake_all" }

TopMethods ==
    { None, Some("deposit_and_stake"), Some("unstake"), Some("withdraw_all") }

Deposits == { None } \cup { Some(a) : a \in AmountStrings }

Envs ==
    [ status : { "Ok", "Err" },
      balance : { Err("Rpc"), Ok(None), Ok(Some(Chars("6"))) },
      overflow : { "panic", "wrap" } ]

RawTransaction(hash, height, method, deposit, top_height, receipts) ==
    [ transaction_hash |-> hash, block |-> [ block_height |-> height ],
      block_timestamp |-> Chars("2000000000"), predecessor_account_id |-> "a",
      signer_id |-> "a", method |-> method, deposit |-> deposit,
      block_height |-> top_height, tx_data |-> [ receipts_outcome |-> receipts ] ]

InitClassify ==
    /\ RewardsIdle
    /\ GatewayIdle
    /\ SyncIdle
    /\ history = historyIdle
    /\ transactions = << >>
    /\ ftx = ftxIdle
    /\ \E method \in TopMethods, deposit \in Deposits,
          top_height \in { None, Some(2) },
          receipts \in ReceiptLists, env \in Envs :
          \* the answers nothing reads are held at one value
          /\ env.status = "Err" => receipts = << >>
          /\ ~CallsUnstake(receipts) \/ env.status = "Err" =>
                env.balance = Err("Rpc") /\ env.overflow = "panic" /\ top_height = None
          /\ top_height # None => env.overflow = "panic"
          /\ cls = [ pc |-> "call",
                     tx |-> RawTransaction(1, 2, method, deposit, top_height, receipts),
                     env |-> env, result |-> Ok(None) ]

\* process_transactions: analyze_staking_transaction(&tx, ..)
Classify ==
    /\ cls.pc = "call"
    /\ cls' = [ cls EXCEPT !.pc = "done",
                           !.result = analyze_staking_transaction(cls.tx, cls.env) ]
    /\ UNCHANGED << rewardsVars, gatewayVars, syncVars, history, transactions, ftx >>

NextClassify == Classify

SpecClassify == InitClassify /\ [][NextClassify]_vars

----------------------------------------------------------------------------
(* Claims about the classifier                                             *)

UnstakeMethods == { "unstake", "unstake_all", "withdraw", "withdraw_all" }

\* C10 as stated: for every (action, method) pair the classifier produces,
\* the persisted kind type_ is "unstake" if and only if action = unstake or
\* method is one of unstake, unstake_all, withdraw, withdraw_all, and "stake"
\* otherwise.
C10_AsStated ==
    cls.pc = "done" /\ IsOk(cls.result) /\ IsSome(Val(cls.result)) =>
        LET t == Unwrap(Val(cls.result))
        IN  /\ t.type_ \in { "stake", "unstake" }
            /\ t.type_ = "unstake" <=>
                   (t.action = "unstake" \/ t.method \in UnstakeMethods)

\* what determine_type does: the kind is the action
KindIsAction ==
    cls.pc = "done" /\ IsOk(cls.result) /\ IsSome(Val(cls.result)) =>
        Unwrap(Val(cls.result)).type_ = Unwrap(Val(cls.result)).action

----------------------------------------------------------------------------
(* Transaction source: fetch_and_process_transactions over successive runs *)
(*                                                                         *)
(* history.txns are the rows the history API will ever list for the        *)
(* validator, in ascending block order, and history.visible is how many of *)
(* them it lists so far; it lists none at first.  A row is held as its     *)
(* hash, its block height and the name of its content; RawOf gives the raw *)
(* transaction.                                                            *)

\* bounds of the history
MaxTxns == 2

MaxTxHeight == 2

MaxTxRuns == 2

\* the page size of the request (25 in the program), scaled down
per_page == 1

max_retries == 5

TxShapes == { "stake_log", "unstake_log", "withdraw_all" }

RawOf(row) ==
    CASE row.shape = "stake_log" ->
           RawTransaction(row.transaction_hash, row.block_height,
               Some("deposit_and_stake"), Some(Chars("4")), None,
               << [ logs |-> << Chars("@a staking 5.") >>,
                    actions |-> << >> ] >>)
      [] row.shape = "unstake_log" ->
           RawTransaction(row.transaction_hash, row.block_height,
               Some("unstake"), None, None,
               << [ logs |-> << Chars("@a unstaking 3.") >>,
                    actions |-> << >> ] >>)
      [] OTHER ->
           RawTransaction(row.transaction_hash, row.block_height,
               Some("withdraw_all"), None, None,
               << [ logs |-> << Chars("@a withdrawing 2.") >>,
                    actions |-> << Some([ method_name |-> "withdraw_all",
                                          deposit |-> None, args |-> None ]) >> ] >>)

\* the histories: distinct hashes, block heights in ascending order
Histories ==
    { h \in SeqsUpTo([ block_height : 1..MaxTxHeight, shape : TxShapes ], MaxTxns) :
        \A i \in 1..(Len(h) - 1) : h[i].block_height <= h[i + 1].block_height }

WithHashes(h) ==
    [ i \in 1..Len(h) |->
        [ transaction_hash |-> i, block_height |-> h[i].block_height,
          shape |-> h[i].shape ] ]

\* the answers of the endpoints while the transactions of a run are classified
TxEnvs ==
    { [ status |-> "Ok", balance |-> Ok(Some(Chars("6"))), overflow |-> "panic" ],
      [ status |-> "Err", balance |-> Err("Rpc"), overflow |-> "panic" ] }

\* what one request of a page can come back with
HistoryOutcomes ==
    { "SendError", "TooManyRequests", "LimitMessage", "Txns", "Unexpected",
      "Undecodable" }

\* the txns array of the answer to page current_page with after_block: the
\* listed rows above after_block, in ascending order, per_page to a page
stake_txns(after_block, current_page) ==
    LET listed == SubSeq(history.txns, 1, history.visible)
        Above(row) == row.block_height > after_block
        rows   == SelectSeq(listed, Above)
        first  == (current_page - 1) * per_page + 1
        last   == IF current_page * per_page < Len(rows)
                  THEN current_page * per_page ELSE Len(rows)
    IN  SubSeq(rows, first, last)

\* the same function reading the oldest persisted transaction
get_latest_transaction_oldest(db) ==
    { db[i] : i \in { i \in 1..Len(db) :
                        \A j \in 1..Len(db) : db[i].block_height <= db[j].block_height } }

\* get_latest_transaction: the documents a find sorted by block_height
\* descending, limit 1, can return
get_latest_transaction(db) ==
    { db[i] : i \in { i \in 1..Len(db) :
                        \A j \in 1..Len(db) : db[j].block_height <= db[i].block_height } }

\* save_transactions: insert_many
save_transactions(db, new_transactions) == db \o new_transactions

\* fetch_and_process_transactions is entered
ftx_enter(run) ==
    [ pc |-> "start", run |-> run, last_block_height |-> 0, current_page |-> 1,
      attempt |-> 0, all_transactions |-> << >>, i |-> 0,
      processed_transactions |-> << >>, error |-> << >> ]

InitTx ==
    /\ RewardsIdle
    /\ GatewayIdle
    /\ SyncIdle
    /\ cls = clsIdle
    /\ transactions = << >>
    /\ ftx = ftx_enter(1)
    /\ \E h \in Histories : history = [ txns |-> WithHashes(h), visible |-> 0 ]

\* fetch_and_process_transactions: last_block_height
FtxLastBlockHeight ==
    /\ ftx.pc = "start"
    /\ IF transactions = << >>
       THEN ftx' = [ ftx EXCEPT !.pc = "fetch", !.last_block_height = 0 ]
       ELSE \E last_transaction \in get_latest_transaction(transactions) :
               ftx' = [ ftx EXCEPT !.pc = "fetch",
                          !.last_block_height = last_transaction.block_height ]
    /\ UNCHANGED << rewardsVars, gatewayVars, syncVars, history, transactions, cls >>

\* fetch_new_transactions: one request of the current page and what the loop
\* does with the answer
FetchPage ==
    /\ ftx.pc = "fetch"
    /\ \E outcome \in HistoryOutcomes :
          LET txns == stake_txns(ftx.last_block_height, ftx.current_page)
              next_attempt == IF ftx.attempt + 1 < max_retries
                              THEN ftx.attempt + 1 ELSE 0
          IN  ftx' =
                CASE outcome \in { "SendError", "Undecodable" } ->
                       [ ftx EXCEPT !.pc = "failed", !.error = Err("Http") ]
                  [] outcome \in { "TooManyRequests", "LimitMessage" } ->
                       [ ftx EXCEPT !.attempt = next_attempt ]
                  [] outcome = "Txns" /\ txns = << >> ->
                       [ ftx EXCEPT !.pc = "process", !.i = 0 ]
                  [] outcome = "Txns" /\ txns # << >> ->
                       [ ftx EXCEPT !.all_transactions = @ \o txns,
                                    !.current_page = @ + 1, !.attempt = 0 ]
                  [] outcome = "Unexpected" /\ ftx.attempt = max_retries - 1 ->
                       [ ftx EXCEPT !.pc = "failed", !.error = Err("MaxRetries") ]
                  [] OTHER ->
                       [ ftx EXCEPT !.attempt = @ + 1 ]
    /\ UNCHANGED << rewardsVars, gatewayVars, syncVars, history, transactions, cls >>

\* the same turn inserting each transaction as soon as it is classified
ProcessTransaction_insert_each ==
    /\ ftx.pc = "process"
    /\ IF ftx.i < Len(ftx.all_transactions)
       THEN \E env \in TxEnvs :
               LET result == analyze_staking_transaction(
                                 RawOf(ftx.all_transactions[ftx.i + 1]), env)
               IN  /\ ftx' = IF ~IsOk(result)
                             THEN [ ftx EXCEPT !.pc = "failed", !.error = result ]
                             ELSE [ ftx EXCEPT !.i = @ + 1,
                                      !.processed_transactions = @ \o Val(result) ]
                   /\ transactions' = IF ~IsOk(result) THEN transactions
                                      ELSE save_transactions(transactions, Val(result))
       ELSE /\ ftx' = [ ftx EXCEPT !.pc = "save" ]
            /\ transactions' = transactions
    /\ UNCHANGED << rewardsVars, gatewayVars, syncVars, history, cls >>

\* process_transactions: one turn of `for tx in transactions`, and the return
ProcessTransaction ==
    /\ ftx.pc = "process"
    /\ IF ftx.i < Len(ftx.all_transactions)
       THEN \E env \in TxEnvs :
               LET result == analyze_staking_transaction(
                                 RawOf(ftx.all_transactions[ftx.i + 1]), env)
               IN  ftx' = IF ~IsOk(result)
                          THEN [ ftx EXCEPT !.pc = "failed", !.error = result ]
                          ELSE [ ftx EXCEPT !.i = @ + 1,
                                   !.processed_transactions = @ \o Val(result) ]
       ELSE ftx' = [ ftx EXCEPT !.pc = "save" ]
    /\ UNCHANGED << rewardsVars, gatewayVars, syncVars, history, transactions, cls >>

\* fetch_and_process_transactions: save the processed transactions and return
SaveTransactions ==
    /\ ftx.pc = "save"
    /\ transactions' = IF ftx.processed_transactions # << >>
                       THEN save_transactions(transactions, ftx.processed_transactions)
                       ELSE transactions
    /\ ftx' = [ ftx EXCEPT !.pc = "returned" ]
    /\ UNCHANGED << rewardsVars, gatewayVars, syncVars, history, cls >>

\* the program is run again
FtxNextRun ==
    /\ ftx.pc \in { "returned", "failed" }
    /\ ftx.run < MaxTxRuns
    /\ ftx' = ftx_enter(ftx.run + 1)
    /\ UNCHANGED << rewardsVars, gatewayVars, syncVars, history, transactions, cls >>

\* the history API lists one more row (a row that appears while a run
\* classifies or saves is one that appears before the next run)
HistoryGrows ==
    /\ ftx.pc \in { "start", "fetch" }
    /\ history.visible < Len(history.txns)
    /\ history' = [ history EXCEPT !.visible = @ + 1 ]
    /\ UNCHANGED << rewardsVars, gatewayVars, syncVars, transactions, ftx, cls >>

NextTx ==
    \/ FtxLastBlockHeight
    \/ FetchPage
    \/ ProcessTransaction
    \/ SaveTransactions
    \/ FtxNextRun
    \/ HistoryGrows

SpecTx == InitTx /\ [][NextTx]_vars

----------------------------------------------------------------------------
(* Claims about the transaction source                                     *)

\* max(persisted.block_height), 0 for an empty collection
MaxPersistedHeight(db) ==
    IF db = << >> THEN 0
    ELSE LET heights == { db[i].block_height : i \in 1..Len(db) }
         IN  CHOOSE m \in heights : \A h \in heights : h <= m

\* C3: with a history API that takes after_block as a strict lower bound, a
\* run requests with after_block = max(persisted.block_height) (0 if none),
\* yields no transaction at or below that height, and after any sequence of
\* runs no transaction is persisted twice.
C3_TransactionResumability ==
    /\ ftx.pc \in { "fetch", "process", "save" } =>
           ftx.last_block_height = MaxPersistedHeight(transactions)
    /\ ftx.pc # "idle" =>
           \A i \in 1..Len(ftx.all_transactions) :
               ftx.all_transactions[i].block_height > ftx.last_block_height
    /\ \A i \in 1..Len(transactions), j \in 1..Len(transactions) :
           i # j => transactions[i].transaction_hash # transactions[j].transaction_hash

\* a later run that found transactions persisted and saved new ones
C3_Witness ==
    /\ ftx.pc = "returned"
    /\ ftx.run >= 2
    /\ ftx.last_block_height > 0
    /\ ftx.processed_transactions # << >>
    /\ Len(transactions) > Len(ftx.processed_transactions)

\* C9 as stated: a failure of the amount normalization on one transaction of
\* the batch skips that transaction only; the run does not abort on it.
C9_AsStated == ftx.pc = "failed" => ftx.error # Err("ParseAmount")

----------------------------------------------------------------------------
(* One call of safe_parse_amount                                           *)

\* the largest integer an input is built from
MaxAmount == 125

Pads == { << >>, << " " >>, << "\t", " " >> }

Fracs == { << >>, Chars(".45"), Chars(".0") }

\* the decimal serialization of n, with a fractional part, wrapped in
\* double quotes (or not) and then in whitespace
Wrapped(n, pad, quoted, frac) ==
    pad \o (IF quoted THEN << "\"" >> ELSE << >>) \o NatToString(n) \o frac
        \o (IF quoted THEN << "\"" >> ELSE << >>) \o pad

\* strings that are not a wrapped non-negative integer
OtherAmounts ==
    { Chars("-4"), Chars("+4"), Chars("x"), << >>, Chars("1e3"), Chars(".5"),
      Chars("\" 7\""), Chars("007"), Chars("-0") }

AmountInputs ==
    { Wrapped(n, pad, quoted, frac) :
        n \in 0..MaxAmount, pad \in Pads, quoted \in BOOLEAN, frac \in Fracs }
    \cup OtherAmounts

InitAmount ==
    /\ cr = crIdle
    /\ ca = caIdle
    /\ pdd = pddIdle
    /\ epoch_data = {}
    /\ validator_metrics = {}
    /\ delegators = {}
    /\ DriverIdle
    /\ GatewayIdle
    /\ SyncIdle
    /\ TxIdle
    /\ \E s \in AmountInputs :
          spa = [ pc |-> "call", amount_str |-> s, result |-> Err("") ]

\* analyze_staking_transaction: safe_parse_amount(&result.amount)
SafeParseAmount ==
    /\ spa.pc = "call"
    /\ spa' = [ spa EXCEPT !.pc = "done", !.result = safe_parse_amount(spa.amount_str) ]
    /\ UNCHANGED << cr, ca, pdd, epoch_data, validator_metrics, delegators,
                    driverVars, gatewayVars, syncVars, txVars >>

NextAmount == SafeParseAmount

SpecAmount == InitAmount /\ [][NextAmount]_vars

----------------------------------------------------------------------------
(* Claims about safe_parse_amount                                          *)

\* C12: amount parser invariance.  Normalizing the decimal serialization of
\* a non-negative integer n returns that serialization; and normalizing it
\* with a fractional part, inside double quotes, inside whitespace, returns
\* the integer part before the decimal point.
C12_ParserInvariance ==
    spa.pc = "done" =>
        \A n \in 0..MaxAmount :
            /\ spa.amount_str = NatToString(n) => spa.result = Ok(NatToString(n))
            /\ \A pad \in Pads, quoted \in BOOLEAN, frac \in Fracs :
                   spa.amount_str = Wrapped(n, pad, quoted, frac)
                       => spa.result = Ok(NatToString(n))

\* C12 witness: the token 123.45 wrapped in quotes and spaces has been
\* normalized to 123.
C12_Witness ==
    /\ spa.pc = "done"
    /\ spa.amount_str = Chars(" \"123.45\" ")
    /\ spa.result = Ok(Chars("123"))

----------------------------------------------------------------------------
(* Epoch processor: calculate_apy                                          *)
(*                                                                         *)
(* The function computes in f64.  Its result is x.round() / 100.0 for an   *)
(* f64 x, so it is the double nearest to k / 100 for an integer k; the     *)
(* model carries k, the number of hundredths.  For the stakes of the model *)
(* (below 80) the quotient rewards / stake is either a binary fraction,    *)
(* which f64 holds exactly, or at least 1 / (2 * stake) away from the      *)
(* nearest half-integer after scaling, far more than the rounding error of *)
(* three f64 operations, so k is the exact quotient rounded half away from *)
(* zero, which is what f64::round does.                                    *)

EPOCHS_PER_YEAR == 730

\* (a / b).round() for integers a and b, b # 0: half away from zero
RoundDiv(a, b) ==
    LET num == IF b < 0 THEN 0 - a ELSE a
        den == IF b < 0 THEN 0 - b ELSE b
    IN  IF num >= 0 THEN (2 * num + den) \div (2 * den)
        ELSE 0 - ((2 * (0 - num) + den) \div (2 * den))

\* the same function with the quotient taken the other way round
calculate_apy_inverted(rewards, stake_amount) ==
    LET rewards_big == BigIntOrZero(rewards)
        stake_big   == BigIntOrZero(stake_amount)
    IN  IF stake_big = 0 \/ rewards_big = 0 THEN 0
        ELSE RoundDiv(stake_big * EPOCHS_PER_YEAR * 100, rewards_big)

\* the result in hundredths: ((rewards / stake) * 730 * 100).round(), which
\* the function then divides by 100
calculate_apy(rewards, stake_amount) ==
    LET rewards_big == BigIntOrZero(rewards)
        stake_big   == BigIntOrZero(stake_amount)
    IN  IF stake_big = 0 THEN 0
        ELSE RoundDiv(rewards_big * EPOCHS_PER_YEAR * 100, stake_big)

\* bounds of the inputs of calculate_apy
MaxApyRewards == 12

MaxApyStake == 12

ApyRewards == { NatToString(n) : n \in 0..MaxApyRewards } \cup { Chars("x") }

ApyStakes == { NatToString(n) : n \in 0..MaxApyStake } \cup { Chars("x") }

InitApy ==
    /\ cr = crIdle
    /\ spa = spaIdle
    /\ pdd = pddIdle
    /\ epoch_data = {}
    /\ validator_metrics = {}
    /\ delegators = {}
    /\ DriverIdle
    /\ GatewayIdle
    /\ SyncIdle
    /\ TxIdle
    /\ \E r \in ApyRewards, s \in ApyStakes :
          ca = [ pc |-> "call", rewards |-> r, stake_amount |-> s, apy |-> 0,
                 previous |-> None ]

\* process_delegator_data: apy = calculate_apy(&rewards, &staked_balance)
CalculateApy ==
    /\ ca.pc = "call"
    /\ ca' = [ ca EXCEPT !.pc = "done",
                         !.apy = calculate_apy(ca.rewards, ca.stake_amount) ]
    /\ UNCHANGED << cr, spa, pdd, epoch_data, validator_metrics, delegators,
                    driverVars, gatewayVars, syncVars, txVars >>

\* process_delegator_data: the loop goes on to the next account; the frame
\* keeps the call just made beside the new one
NextAccount ==
    /\ ca.pc = "done"
    /\ ca.previous = None
    /\ \E r \in ApyRewards, s \in ApyStakes :
          ca' = [ pc |-> "call", rewards |-> r, stake_amount |-> s, apy |-> 0,
                  previous |-> Some([ rewards |-> ca.rewards,
                                      stake_amount |-> ca.stake_amount,
                                      apy |-> ca.apy ]) ]
    /\ UNCHANGED << cr, spa, pdd, epoch_data, validator_metrics, delegators,
                    driverVars, gatewayVars, syncVars, txVars >>

NextApy == CalculateApy \/ NextAccount

SpecApy == InitApy /\ [][NextApy]_vars

----------------------------------------------------------------------------
(* Claims about calculate_apy                                              *)

\* the inputs of the call as numbers, as the function reads them
caRewards == BigIntOrZero(ca.rewards)

caStake == BigIntOrZero(ca.stake_amount)

\* C13 as stated: for stake > 0 the result is (rewards / stake) * 730 * 100
\* rounded to 2 decimal places, that is round(rewards * 730 * 100 * 100 /
\* stake) hundredths; for stake = 0 it is 0.
C13_AsStated ==
    ca.pc = "done" =>
        ca.apy = IF caStake = 0 THEN 0
                 ELSE RoundDiv(caRewards * EPOCHS_PER_YEAR * 100 * 100, caStake)

\* what calculate_apy returns: (rewards / stake) * 730 rounded to 2 decimal
\* places, a fraction and not a percentage
ApyIsFraction ==
    ca.pc = "done" =>
        ca.apy = IF caStake = 0 THEN 0
                 ELSE RoundDiv(caRewards * EPOCHS_PER_YEAR * 100, caStake)

\* C14: APY monotonicity and zeros.  For two calls with the same stake > 0
\* and rewards r1 <= r2 the results are ordered the same way; the result is
\* 0 when rewards = 0 and 0 when stake = 0.
C14_ApyMonotone ==
    ca.pc = "done" =>
        /\ caRewards = 0 => ca.apy = 0
        /\ caStake = 0 => ca.apy = 0
        /\ IsSome(ca.previous) /\ caStake > 0
              /\ BigIntOrZero(Unwrap(ca.previous).stake_amount) = caStake
              /\ BigIntOrZero(Unwrap(ca.previous).rewards) <= caRewards
           => Unwrap(ca.previous).apy <= ca.apy

\* C14 witness: two calls with stake 7, rewards 1 and then 2, have returned
\* different results in that order.
C14_Witness ==
    /\ ca.pc = "done"
    /\ IsSome(ca.previous)
    /\ ca.stake_amount = << "7" >>
    /\ Unwrap(ca.previous).stake_amount = << "7" >>
    /\ Unwrap(ca.previous).rewards = << "1" >>
    /\ ca.rewards = << "2" >>
    /\ Unwrap(ca.previous).apy < ca.apy

----------------------------------------------------------------------------
(* Epoch processor: process_delegator_data, one epoch task                 *)
(*                                                                         *)
(* A HashMap is the set of its << key, value >> entries.  The answers of   *)
(* the staking pool (get_accounts) and the outcome of each store write are *)
(* chosen when the task asks for them.                                     *)

u64_MAX == 2147483647

\* x as i64 for a u64 x
as_i64(x) == IF x = u64_MAX THEN 0 - 1 ELSE x

HashMapNew == {}

HashMapKeys(m) == { p[1] : p \in m }

HashMapGet(m, k) ==
    IF k \in HashMapKeys(m) THEN Some((CHOOSE p \in m : p[1] = k)[2]) ELSE None

HashMapInsert(m, k, v) == { p \in m : p[1] # k } \cup { << k, v >> }

\* slice::sort_by_key(|tx| tx.block_height), a stable sort: tx goes behind
\* every element of the sorted list whose key is not greater
insert_by_block_height(sorted, tx) ==
    LET k == Cardinality({ i \in 1..Len(sorted) :
                             sorted[i].block_height <= tx.block_height })
    IN  SubSeq(sorted, 1, k) \o << tx >> \o SubSeq(sorted, k + 1, Len(sorted))

RECURSIVE sort_by_block_height(_)
sort_by_block_height(txs) ==
    IF Len(txs) <= 1 THEN txs
    ELSE insert_by_block_height(sort_by_block_height(SubSeq(txs, 1, Len(txs) - 1)),
                                txs[Len(txs)])

\* the same amount with an unstake added instead of subtracted
signed_amount_added(type_, amount) ==
    CASE type_ = "stake" -> amount
      [] type_ = "unstake" -> amount
      [] OTHER -> 0

\* the signed amount a transaction adds to its delegator's entry
signed_amount(type_, amount) ==
    CASE type_ = "stake" -> amount
      [] type_ = "unstake" -> 0 - amount
      [] OTHER -> 0

\* calculate_initial_stakes: the loop over the sorted transactions
RECURSIVE initial_stakes_loop(_, _)
initial_stakes_loop(txs, stakes) ==
    IF Len(txs) = 0 THEN stakes
    ELSE IF ~IsSome(BigIntFromStr(Head(txs).amount))
         THEN initial_stakes_loop(Tail(txs), stakes)
         ELSE initial_stakes_loop(Tail(txs),
                  HashMapInsert(stakes, Head(txs).delegator_address,
                      unwrap_or(HashMapGet(stakes, Head(txs).delegator_address), 0)
                      + signed_amount(Head(txs).type_,
                                      Unwrap(BigIntFromStr(Head(txs).amount)))))

calculate_initial_stakes(txs) ==
    initial_stakes_loop(sort_by_block_height(txs), HashMapNew)

RECURSIVE calculate_epoch_transaction_totals(_)
calculate_epoch_transaction_totals(txs) ==
    IF Len(txs) = 0 THEN HashMapNew
    ELSE LET totals == calculate_epoch_transaction_totals(SubSeq(txs, 1, Len(txs) - 1))
             tx     == txs[Len(txs)]
         IN  HashMapInsert(totals, tx.delegator_address,
                 unwrap_or(HashMapGet(totals, tx.delegator_address), 0)
                 + signed_amount(tx.type_, BigIntOrZero(tx.amount)))

\* the transactions with start <= block_height <= end, in their order
epoch_transactions_of(txs, start_block_height, end_block_height) ==
    SelectSeq(txs, LAMBDA tx : /\ tx.block_height >= start_block_height
                               /\ tx.block_height <= end_block_height)

\* get_previous_epoch_data: the greatest block_height below the epoch start
prev_block_of(txs, current_start_block) ==
    LET below == { txs[i].block_height : i \in { j \in 1..Len(txs) :
                                             txs[j].block_height < current_start_block } }
    IN  IF below = {} THEN 0 ELSE CHOOSE h \in below : \A g \in below : g <= h

\* get_previous_epoch_data: the map built from the accounts
RECURSIVE prev_stakes_of(_)
prev_stakes_of(accounts) ==
    IF Len(accounts) = 0 THEN HashMapNew
    ELSE HashMapInsert(prev_stakes_of(SubSeq(accounts, 1, Len(accounts) - 1)),
                       accounts[Len(accounts)].account_id,
                       accounts[Len(accounts)].staked_balance)

DelegatorData(delegator_id, validator_account_id, epoch, start_block_height, end_block_height, timestamp, initial_stake, auto_compounded_stake, last_update_block, epoch_id, rewards, apy) ==
    [ delegator_id |-> delegator_id, validator_account_id |-> validator_account_id,
      epoch |-> epoch, start_block_height |-> start_block_height,
      end_block_height |-> end_block_height, timestamp |-> timestamp,
      initial_stake |-> initial_stake,
      auto_compounded_stake |-> auto_compounded_stake,
      last_update_block |-> last_update_block, epoch_id |-> epoch_id,
      rewards |-> rewards, apy |-> apy ]

\* process_delegator_data: one account's row
delegator_row(f, account, rewards) ==
    DelegatorData(account.account_id, f.validator_account_id, f.epoch_number,
        f.start_block_height, f.end_block_height, f.epoch_timestamp,
        BigIntToString(unwrap_or(HashMapGet(f.initial_stakes, account.account_id), 0)),
        account.staked_balance, f.start_block_height, f.epoch_id,
        rewards, calculate_apy(rewards, account.staked_balance))

\* process_delegator_data: one account added to the map and to the totals
add_account(f, acc, account, rewards) ==
    [ delegator_data |-> HashMapInsert(acc.delegator_data, account.account_id,
                                       delegator_row(f, account, rewards)),
      total_stake   |-> acc.total_stake + BigIntOrZero(account.staked_balance),
      total_rewards |-> acc.total_rewards + BigIntOrZero(rewards) ]

\* process_delegator_data: the loop over the accounts
RECURSIVE accounts_loop(_, _, _)
accounts_loop(f, accounts, acc) ==
    IF Len(accounts) = 0 THEN acc
    ELSE accounts_loop(f, Tail(accounts),
             add_account(f, acc, Head(accounts),
                 calculate_rewards(Head(accounts).staked_balance,
                     HashMapGet(f.prev_epoch_stakes, Head(accounts).account_id),
                     HashMapGet(f.epoch_transaction_totals, Head(accounts).account_id))))

\* an upsert: the document with the key of doc is replaced by doc
upsert(collection, doc, Key(_)) ==
    { d \in collection : Key(d) # Key(doc) } \cup { doc }

epoch_data_key(d) == << d.epoch, d.epochId, d.validatorAccountId >>

save_epoch_data(db, f) ==
    upsert(db, [ epoch |-> as_i64(f.epoch_number), epochId |-> f.epoch_id,
                 validatorAccountId |-> f.validator_account_id,
                 startBlockHeight |-> as_i64(f.start_block_height),
                 endBlockHeight |-> as_i64(f.end_block_height),
                 timestamp |-> f.epoch_timestamp,
                 delegators |-> f.delegator_data,
                 transactions |-> f.epoch_transactions ],
           epoch_data_key)

delegators_key(d) == << d.delegatorId, d.validatorAccountId, d.epoch >>

\* save_delegator_data: the update_one of one row
save_delegator_row(db, data) ==
    upsert(db, [ delegatorId |-> data.delegator_id,
                 validatorAccountId |-> data.validator_account_id,
                 epoch |-> as_i64(data.epoch), data |-> data ],
           delegators_key)

validator_metrics_key(d) == << d.validatorAccountId, d.epoch, d.epochId >>

HISTORY_SLICE == 100

\* the sum of auto_compounded_stake over the rows of a set of entries
RECURSIVE total_staked_of(_)
total_staked_of(entries) ==
    IF entries = {} THEN 0
    ELSE LET p == CHOOSE q \in entries : TRUE
         IN  BigIntOrZero(p[2].auto_compounded_stake) + total_staked_of(entries \ { p })

\* save_validator_metrics: the metrics document
metrics_doc(validator_account_id, epoch, epoch_id, delegator_data, epoch_timestamp, apy) ==
    [ validatorAccountId |-> validator_account_id, epoch |-> as_i64(epoch),
      epochId |-> epoch_id,
      totalStaked |-> BigIntToString(total_staked_of(delegator_data)),
      totalDelegators |-> Cardinality(delegator_data),
      timestamp |-> epoch_timestamp, apy |-> apy ]

\* the same update keeping the first n elements instead of the last n
push_slice_head(array, element, n) ==
    LET pushed == Append(array, element)
    IN  IF Len(pushed) <= n THEN pushed
        ELSE SubSeq(pushed, 1, n)

\* $push with $each and $slice: -n keeps the last n elements
push_slice(array, element, n) ==
    LET pushed == Append(array, element)
    IN  IF Len(pushed) <= n THEN pushed
        ELSE SubSeq(pushed, Len(pushed) - n + 1, Len(pushed))

\* the history array of the document the filter matches, empty on an insert
history_of(db, metrics) ==
    IF \E d \in db : validator_metrics_key(d) = validator_metrics_key(metrics)
    THEN (CHOOSE d \in db : validator_metrics_key(d) = validator_metrics_key(metrics)).history
    ELSE << >>

\* the update_one of save_validator_metrics: $set of the metrics and $push
\* of the metrics onto history, as an upsert
update_validator_metrics(db, metrics, slice) ==
    upsert(db, [ validatorAccountId |-> metrics.validatorAccountId,
                 epoch |-> metrics.epoch, epochId |-> metrics.epochId,
                 totalStaked |-> metrics.totalStaked,
                 totalDelegators |-> metrics.totalDelegators,
                 timestamp |-> metrics.timestamp, apy |-> metrics.apy,
                 history |-> push_slice(history_of(db, metrics), metrics, slice) ],
           validator_metrics_key)

save_validator_metrics(db, validator_account_id, epoch, epoch_id, delegator_data, epoch_timestamp, apy) ==
    update_validator_metrics(db,
        metrics_doc(validator_account_id, epoch, epoch_id, delegator_data,
                    epoch_timestamp, apy),
        HISTORY_SLICE)

----------------------------------------------------------------------------
(* One epoch task on inputs drawn from samples                             *)

EpochDelegators == { "a", "b" }

EpochKinds == { "stake", "unstake" }

EpochTxHeights == { 1, 2 }

\* a persisted transaction of the given kind: a stake of 3 or an unstake of 2
EpochTx(hash, kind, height, delegator) ==
    Transaction(hash, IF kind = "stake" THEN Chars("3") ELSE Chars("2"),
                IF kind = "stake" THEN "deposit_and_stake" ELSE "unstake",
                kind, kind, height, 0, delegator)

\* the transactions of the run: none, one or two
EpochTxLists ==
    { << >> }
    \cup { << EpochTx(1, k, h, d) >> :
             k \in EpochKinds, h \in EpochTxHeights, d \in EpochDelegators }
    \cup { << EpochTx(1, k, h, d), EpochTx(2, l, g, e) >> :
             k \in EpochKinds, h \in EpochTxHeights, d \in EpochDelegators,
             l \in EpochKinds, g \in EpochTxHeights, e \in EpochDelegators }

\* the epoch's window: the last epoch of the list ends at u64::MAX
EpochWindows ==
    { w \in { 1, 2 } \X { 1, 2, u64_MAX } : w[1] <= w[2] }

\* what the staking pool lists: each account once, with its staked balance
AccountLists ==
    { << >> }
    \cup { << [ account_id |-> d, staked_balance |-> b ] >> :
             d \in EpochDelegators, b \in { Chars("0"), Chars("4") } }
    \cup { << [ account_id |-> d, staked_balance |-> b ],
              [ account_id |-> e, staked_balance |-> c ] >> :
             d \in EpochDelegators, e \in EpochDelegators,
             b \in { Chars("0"), Chars("4") }, c \in { Chars("0"), Chars("4") } }

\* the answers of near_rpc::get_accounts
AccountAnswers == { Err("Rpc") } \cup { Ok(l) : l \in { a \in AccountLists :
                        Len(a) = 2 => a[1].account_id # a[2].account_id } }

StoreOutcomes == { "Ok", "Err" }

pdd_enter(transactions_, start_block_height, end_block_height, epoch_number, epoch_id) ==
    [ pc |-> "start", validator_account_id |-> "v",
      start_block_height |-> start_block_height,
      end_block_height |-> end_block_height,
      transactions |-> transactions_, epoch_number |-> epoch_number,
      epoch_id |-> epoch_id, epoch_timestamp |-> 0,
      initial_stakes |-> HashMapNew, prev_epoch_stakes |-> HashMapNew,
      epoch_transactions |-> << >>, epoch_transaction_totals |-> HashMapNew,
      delegator_data |-> HashMapNew, validator_apy |-> 0,
      pending |-> {}, result |-> Ok("") ]

InitEpoch ==
    /\ cr = crIdle
    /\ spa = spaIdle
    /\ ca = caIdle
    /\ DriverIdle
    /\ GatewayIdle
    /\ SyncIdle
    /\ TxIdle
    /\ epoch_data = {}
    /\ validator_metrics = {}
    /\ delegators = {}
    /\ \E txs \in EpochTxLists, w \in EpochWindows :
          pdd = pdd_enter(txs, w[1], w[2], 1, "E1")

\* the task returns the error e
pdd_fail(f, e) == [ f EXCEPT !.pc = "failed", !.result = Err(e) ]

\* process_delegator_data up to get_previous_epoch_data: the initial stakes
\* of the window, then the accounts at the last transaction height below it
PddPreviousEpoch ==
    /\ pdd.pc = "start"
    /\ \E answer \in AccountAnswers :
          /\ prev_block_of(pdd.transactions, pdd.start_block_height) = 0
                => answer = Ok(<< >>)
          /\ pdd' = IF IsOk(answer)
                    THEN [ pdd EXCEPT
                             !.pc = "accounts",
                             !.initial_stakes = calculate_initial_stakes(
                                 epoch_transactions_of(pdd.transactions,
                                     pdd.start_block_height, pdd.end_block_height)),
                             !.prev_epoch_stakes = prev_stakes_of(Val(answer)) ]
                    ELSE pdd_fail(pdd, "Rpc")
    /\ UNCHANGED << cr, spa, ca, epoch_data, validator_metrics, delegators,
                    driverVars, gatewayVars, syncVars, txVars >>

\* the frame after the loop over the accounts; a is the value of acc
pdd_accounts(f, acc) ==
    CHOOSE after \in
        { [ f EXCEPT !.pc = "save_epoch_data",
                     !.delegator_data = a.delegator_data,
                     !.validator_apy = calculate_apy(BigIntToString(a.total_rewards),
                                                     BigIntToString(a.total_stake)) ] :
          a \in { acc } } : TRUE

\* the frame with the transactions of the window and their totals
pdd_totals(f, epoch_transactions) ==
    [ f EXCEPT !.epoch_transactions = epoch_transactions,
               !.epoch_transaction_totals =
                   calculate_epoch_transaction_totals(epoch_transactions) ]

\* process_delegator_data from the window's transactions to the rows: the
\* accounts at the epoch start, their rewards and APY
PddAccounts ==
    /\ pdd.pc = "accounts"
    /\ \E answer \in AccountAnswers :
          pdd' = IF IsOk(answer)
                 THEN pdd_accounts(
                          pdd_totals(pdd, epoch_transactions_of(pdd.transactions,
                                        pdd.start_block_height, pdd.end_block_height)),
                          accounts_loop(
                              pdd_totals(pdd, epoch_transactions_of(pdd.transactions,
                                        pdd.start_block_height, pdd.end_block_height)),
                              Val(answer),
                              [ delegator_data |-> HashMapNew, total_stake |-> 0,
                                total_rewards |-> 0 ]))
                 ELSE pdd_fail(pdd, "Rpc")
    /\ UNCHANGED << cr, spa, ca, epoch_data, validator_metrics, delegators,
                    driverVars, gatewayVars, syncVars, txVars >>

PddSaveEpochData ==
    /\ pdd.pc = "save_epoch_data"
    /\ \E outcome \in StoreOutcomes :
          IF outcome = "Ok"
          THEN /\ epoch_data' = save_epoch_data(epoch_data, pdd)
               /\ pdd' = [ pdd EXCEPT !.pc = "save_validator_metrics" ]
          ELSE /\ pdd' = pdd_fail(pdd, "Db")
               /\ UNCHANGED epoch_data
    /\ UNCHANGED << cr, spa, ca, validator_metrics, delegators,
                    driverVars, gatewayVars, syncVars, txVars >>

\* the same step going on to the rows when the write fails
PddSaveValidatorMetrics_ignored ==
    /\ pdd.pc = "save_validator_metrics"
    /\ \E outcome \in StoreOutcomes :
          /\ validator_metrics' =
                IF outcome = "Ok"
                THEN save_validator_metrics(validator_metrics,
                         pdd.validator_account_id, pdd.epoch_number, pdd.epoch_id,
                         pdd.delegator_data, pdd.epoch_timestamp, pdd.validator_apy)
                ELSE validator_metrics
          /\ pdd' = [ pdd EXCEPT
                        !.pc = IF pdd.delegator_data = {} THEN "done"
                               ELSE "save_delegator_data",
                        !.pending = { p[2] : p \in pdd.delegator_data } ]
    /\ UNCHANGED << cr, spa, ca, epoch_data, delegators,
                    driverVars, gatewayVars, syncVars, txVars >>

PddSaveValidatorMetrics ==
    /\ pdd.pc = "save_validator_metrics"
    /\ \E outcome \in StoreOutcomes :
          IF outcome = "Ok"
          THEN /\ validator_metrics' =
                      save_validator_metrics(validator_metrics,
                          pdd.validator_account_id, pdd.epoch_number, pdd.epoch_id,
                          pdd.delegator_data, pdd.epoch_timestamp, pdd.validator_apy)
               /\ pdd' = [ pdd EXCEPT
                             !.pc = IF pdd.delegator_data = {} THEN "done"
                                    ELSE "save_delegator_data",
                             !.pending = { p[2] : p \in pdd.delegator_data } ]
          ELSE /\ pdd' = pdd_fail(pdd, "Db")
               /\ UNCHANGED validator_metrics
    /\ UNCHANGED << cr, spa, ca, epoch_data, delegators,
                    driverVars, gatewayVars, syncVars, txVars >>

\* save_delegator_data: the next row, in the order the HashMap yields them
PddSaveDelegatorData ==
    /\ pdd.pc = "save_delegator_data"
    /\ \E data \in pdd.pending, outcome \in StoreOutcomes :
          IF outcome = "Ok"
          THEN /\ delegators' = save_delegator_row(delegators, data)
               /\ pdd' = [ pdd EXCEPT
                             !.pc = IF pdd.pending = { data } THEN "done"
                                    ELSE "save_delegator_data",
                             !.pending = pdd.pending \ { data } ]
          ELSE /\ pdd' = pdd_fail(pdd, "Db")
               /\ UNCHANGED delegators
    /\ UNCHANGED << cr, spa, ca, epoch_data, validator_metrics,
                    driverVars, gatewayVars, syncVars, txVars >>

NextEpoch ==
    \/ PddPreviousEpoch
    \/ PddAccounts
    \/ PddSaveEpochData
    \/ PddSaveValidatorMetrics
    \/ PddSaveDelegatorData

SpecEpoch == InitEpoch /\ [][NextEpoch]_vars

----------------------------------------------------------------------------
(* Claims about the persisted monetary fields                              *)

\* the decimal string of a non-negative integer
IsAmount(s) == AllDigits(s)

RowAmountsOk(data) ==
    /\ IsAmount(data.initial_stake)
    /\ IsAmount(data.auto_compounded_stake)
    /\ IsAmount(data.rewards)

\* C11 as stated: every persisted monetary field (the amount of a
\* transaction, initial_stake, auto_compounded_stake and rewards of a
\* delegator row, totalStaked of the validator metrics) is the decimal
\* string of a non-negative integer, an epoch in which a delegator only
\* unstakes included.
C11_AsStated ==
    /\ \A d \in epoch_data :
          /\ \A p \in d.delegators : RowAmountsOk(p[2])
          /\ \A i \in 1..Len(d.transactions) : IsAmount(d.transactions[i].amount)
    /\ \A d \in validator_metrics : IsAmount(d.totalStaked)
    /\ \A d \in delegators : RowAmountsOk(d.data)

\* what does hold of the epoch task: every field but initial_stake
OtherAmountsNonNegative ==
    /\ \A d \in epoch_data :
          /\ \A p \in d.delegators :
                IsAmount(p[2].auto_compounded_stake) /\ IsAmount(p[2].rewards)
          /\ \A i \in 1..Len(d.transactions) : IsAmount(d.transactions[i].amount)
    /\ \A d \in validator_metrics : IsAmount(d.totalStaked)
    /\ \A d \in delegators :
          IsAmount(d.data.auto_compounded_stake) /\ IsAmount(d.data.rewards)

----------------------------------------------------------------------------
(* Pipeline driver: main                                                   *)
(*                                                                         *)
(* The driver calls the transaction source, takes the earliest block       *)
(* height of the batch, calls get_or_sync_epoch_data and fans the epoch    *)
(* tasks out through buffer_unordered(parallel_limit).  The two calls are  *)
(* taken with their outcome (an error, or a value out of samples); an      *)
(* epoch task is started when the buffer polls it for the first time and   *)
(* finishes with its outcome and the writes that outcome has made.  The    *)
(* staking pool the tasks read lists one account.                          *)

\* the largest PARALLEL_LIMIT of the configuration
MaxParallel == 2

\* what fetch_and_process_transactions returns: an error, or the batch
DriverBatches ==
    { Err("Fetch"), Ok(<< >>), Ok(<< EpochTx(1, "stake", 3, "a") >>),
      Ok(<< EpochTx(1, "stake", 1, "a"), EpochTx(2, "unstake", 3, "a") >>) }

\* what get_or_sync_epoch_data returns: an error, or the list of epochs
DriverEpochLists ==
    { Err("Sync"),
      Ok(<< EpochInfo(1, 2, "E1", 0) >>),
      Ok(<< EpochInfo(1, 2, "E1", 0), EpochInfo(3, 4, "E2", 0) >>),
      Ok(<< EpochInfo(1, 2, "E1", 0), EpochInfo(3, 4, "E2", 0),
            EpochInfo(5, 6, "E3", 0) >>),
      Ok(<< EpochInfo(1, 2, "E1", 0), EpochInfo(3, 4, "E1", 0) >>) }

DriverPool == << [ account_id |-> "a", staked_balance |-> Chars("4") ] >>

\* how an epoch task ends: with all its writes, with an error before the
\* first write, or with an error after the write to epoch_data
TaskOutcomes == { "Ok", "ErrBeforeWrites", "ErrAfterEpochData" }

drv_enter(parallel_limit) ==
    [ pc |-> "fetch", parallel_limit |-> parallel_limit,
      new_transactions |-> << >>, start_block_height |-> 0,
      epoch_data |-> << >>, next |-> 1, in_flight |-> {}, tasks |-> HashMapNew,
      process_epoch_tasks |-> << >>, logged |-> << >>, exit |-> "running" ]

InitDriver ==
    /\ cr = crIdle
    /\ ProcessorIdle
    /\ GatewayIdle
    /\ SyncIdle
    /\ TxIdle
    /\ \E parallel_limit \in 0..MaxParallel : drv = drv_enter(parallel_limit)

\* main returns or unwinds: exit is "success" for Ok(()), "failure" for an
\* Err out of main, "panic" for a panic
drv_exit(f, exit) == [ f EXCEPT !.pc = "exit", !.exit = exit ]

\* main: fetch_and_process_transactions(..).await?, which has saved the
\* batch when it is not empty
DrvFetch ==
    /\ drv.pc = "fetch"
    /\ \E fetched \in DriverBatches :
          IF IsOk(fetched)
          THEN /\ drv' = [ drv EXCEPT !.pc = "start_block",
                                      !.new_transactions = Val(fetched) ]
               /\ transactions' = IF Val(fetched) # << >>
                                  THEN save_transactions(transactions, Val(fetched))
                                  ELSE transactions
          ELSE /\ drv' = drv_exit(drv, "failure")
               /\ UNCHANGED transactions
    /\ UNCHANGED << cr, processorVars, gatewayVars, syncVars, history, ftx, cls >>

\* the same step taking 0 for an empty batch
start_block_height_or_zero(new_transactions) ==
    IF Len(new_transactions) = 0 THEN Ok(0)
    ELSE Ok(CHOOSE h \in { new_transactions[i].block_height :
                             i \in 1..Len(new_transactions) } :
               \A i \in 1..Len(new_transactions) : h <= new_transactions[i].block_height)

\* main: the min of the block heights, or the panic of unwrap_or_else
start_block_height_of(new_transactions) ==
    IF Len(new_transactions) = 0 THEN Panic("No transactions found")
    ELSE Ok(CHOOSE h \in { new_transactions[i].block_height :
                             i \in 1..Len(new_transactions) } :
               \A i \in 1..Len(new_transactions) : h <= new_transactions[i].block_height)

\* the frame after the step
drv_start_block(f, start) ==
    IF IsOk(start)
    THEN [ f EXCEPT !.pc = "epoch_data", !.start_block_height = Val(start) ]
    ELSE drv_exit(f, "panic")

DrvStartBlock ==
    /\ drv.pc = "start_block"
    /\ drv' = drv_start_block(drv, start_block_height_of(drv.new_transactions))
    /\ UNCHANGED << cr, processorVars, gatewayVars, syncVars, txVars >>

\* the epoch_sync collection after the saves of a list of epochs
RECURSIVE save_epochs(_, _)
save_epochs(db, epochs) ==
    IF Len(epochs) = 0 THEN db
    ELSE save_epochs(save_epoch_sync(db, Head(epochs)), Tail(epochs))

\* main: get_or_sync_epoch_data(..).await?, which has saved the epochs it
\* returns
DrvEpochData ==
    /\ drv.pc = "epoch_data"
    /\ \E synced \in DriverEpochLists :
          IF IsOk(synced)
          THEN /\ drv' = [ drv EXCEPT !.pc = "fan_out", !.epoch_data = Val(synced) ]
               /\ epoch_sync' = save_epochs(epoch_sync, Val(synced))
          ELSE /\ drv' = drv_exit(drv, "failure")
               /\ UNCHANGED epoch_sync
    /\ UNCHANGED << cr, processorVars, gatewayVars, chain, gos, ged, feb, txVars >>

\* the same test without the limit
may_start_unbounded(f) == f.next <= Len(f.epoch_data)

\* buffer_unordered: the stream is polled for its next future while fewer
\* than parallel_limit futures are in progress
may_start(f) ==
    /\ f.next <= Len(f.epoch_data)
    /\ Cardinality(f.in_flight) < f.parallel_limit

\* main: the end of the window of the epoch at index (from 1)
end_block_of(epoch_data_, index) ==
    IF index < Len(epoch_data_) THEN epoch_data_[index + 1].start_block - 1
    ELSE u64_MAX

\* the same frame with the epoch number of the first task for every task
task_frame_first_epoch(f, index) ==
    pdd_accounts(
        pdd_enter(f.new_transactions, f.epoch_data[index].start_block,
                  end_block_of(f.epoch_data, index), 1,
                  f.epoch_data[index].epoch_id),
        accounts_loop(
            pdd_enter(f.new_transactions, f.epoch_data[index].start_block,
                      end_block_of(f.epoch_data, index), 1,
                      f.epoch_data[index].epoch_id),
            DriverPool,
            [ delegator_data |-> HashMapNew, total_stake |-> 0, total_rewards |-> 0 ]))

\* the frame of the task of the epoch at index once it has read the pool
task_frame(f, index) ==
    pdd_accounts(
        pdd_enter(f.new_transactions, f.epoch_data[index].start_block,
                  end_block_of(f.epoch_data, index), index,
                  f.epoch_data[index].epoch_id),
        accounts_loop(
            pdd_enter(f.new_transactions, f.epoch_data[index].start_block,
                      end_block_of(f.epoch_data, index), index,
                      f.epoch_data[index].epoch_id),
            DriverPool,
            [ delegator_data |-> HashMapNew, total_stake |-> 0, total_rewards |-> 0 ]))

\* the stream yields the future of the next epoch and the buffer polls it:
\* the task runs up to its first store write
DrvStartTask ==
    /\ drv.pc = "fan_out"
    /\ may_start(drv)
    /\ drv' = [ drv EXCEPT !.next = @ + 1, !.in_flight = @ \cup { drv.next },
                            !.tasks = HashMapInsert(@, drv.next,
                                                    task_frame(drv, drv.next)) ]
    /\ UNCHANGED << cr, processorVars, gatewayVars, syncVars, txVars >>

\* save_delegator_data: every row of the task
RECURSIVE save_delegator_rows(_, _)
save_delegator_rows(db, rows) ==
    IF rows = {} THEN db
    ELSE LET data == CHOOSE r \in rows : TRUE
         IN  save_delegator_rows(save_delegator_row(db, data), rows \ { data })

\* an Err in the results of the finished tasks
some_failed(f) ==
    \E k \in 1..Len(f.process_epoch_tasks) : ~IsOk(f.process_epoch_tasks[k].result)

\* the same test giving up at the first error, as try_collect would
fan_out_done_fail_fast(f) ==
    /\ f.in_flight = {}
    /\ f.next > Len(f.epoch_data) \/ some_failed(f)

\* collect: the stream is exhausted and no future is in progress
fan_out_done(f) ==
    /\ f.in_flight = {}
    /\ f.next > Len(f.epoch_data)

\* an epoch task started earlier returns; its result joins the collected
\* ones in completion order
DrvFinishTask ==
    /\ drv.pc = "fan_out"
    /\ \E index \in drv.in_flight, outcome \in TaskOutcomes :
          /\ drv' = [ drv EXCEPT
                        !.in_flight = @ \ { index },
                        !.tasks = { p \in @ : p[1] # index },
                        !.process_epoch_tasks =
                            Append(@, [ index |-> index,
                                        result |-> IF outcome = "Ok" THEN Ok("")
                                                   ELSE Err(outcome) ]) ]
          /\ epoch_data' = IF outcome = "ErrBeforeWrites" THEN epoch_data
                           ELSE save_epoch_data(epoch_data,
                                    Unwrap(HashMapGet(drv.tasks, index)))
          /\ validator_metrics' =
                IF outcome # "Ok" THEN validator_metrics
                ELSE save_validator_metrics(validator_metrics, "v", index,
                         drv.epoch_data[index].epoch_id,
                         Unwrap(HashMapGet(drv.tasks, index)).delegator_data, 0,
                         Unwrap(HashMapGet(drv.tasks, index)).validator_apy)
          /\ delegators' =
                IF outcome # "Ok" THEN delegators
                ELSE save_delegator_rows(delegators,
                         { p[2] : p \in Unwrap(HashMapGet(drv.tasks, index)).delegator_data })
    /\ UNCHANGED << cr, spa, ca, pdd, gatewayVars, syncVars, txVars >>

\* the errors of the collected results, in their order
errors_of(results) ==
    SelectSeq(results, LAMBDA r : ~IsOk(r.result))

\* the same step returning an error when a task has failed
DrvReport_fail_on_error ==
    /\ drv.pc = "fan_out"
    /\ fan_out_done(drv)
    /\ drv' = [ drv_exit(drv, IF some_failed(drv) THEN "failure" ELSE "success")
                  EXCEPT !.logged = errors_of(drv.process_epoch_tasks) ]
    /\ UNCHANGED << cr, processorVars, gatewayVars, syncVars, txVars >>

\* main: the loop that logs each Err, then Ok(())
DrvReport ==
    /\ drv.pc = "fan_out"
    /\ fan_out_done(drv)
    /\ drv' = [ drv_exit(drv, "success") EXCEPT
                  !.logged = errors_of(drv.process_epoch_tasks) ]
    /\ UNCHANGED << cr, processorVars, gatewayVars, syncVars, txVars >>

NextDriver ==
    \/ DrvFetch
    \/ DrvStartBlock
    \/ DrvEpochData
    \/ DrvStartTask
    \/ DrvFinishTask
    \/ DrvReport

SpecDriver == InitDriver /\ [][NextDriver]_vars

\* the driver under the scheduling of the runtime: a step that can be taken
\* is taken
SpecDriverLive == SpecDriver /\ WF_vars(NextDriver)

----------------------------------------------------------------------------
(* Claims about the driver                                                 *)

\* the indices of the epochs whose task has finished
finished_indices ==
    { drv.process_epoch_tasks[k].index : k \in 1..Len(drv.process_epoch_tasks) }

\* C15: empty batch is fatal.  When the transaction source yields no new
\* transactions the run never reaches epoch discovery or the fan-out, it
\* ends without success, and nothing has been written to epoch_sync,
\* epoch_data, validator_metrics or delegators.
C15_EmptyBatchFatal ==
    drv.pc \notin { "idle", "fetch" } /\ drv.new_transactions = << >> =>
        /\ drv.pc \in { "start_block", "exit" }
        /\ drv.pc = "exit" => drv.exit \in { "failure", "panic" }
        /\ drv.epoch_data = << >>
        /\ epoch_sync = {}
        /\ epoch_data = {}
        /\ validator_metrics = {}
        /\ delegators = {}

\* C15 witness: the source has returned an empty batch and main has
\* panicked.
C15_Witness ==
    /\ drv.pc = "exit"
    /\ drv.exit = "panic"
    /\ drv.new_transactions = << >>
    /\ transactions = << >>

\* C16: per-epoch error isolation.  A task is in progress or finished, never
\* both and never twice; a run that gets through the fan-out has a result
\* for every epoch of the list exactly once, whatever the results of the
\* others; an error among the results leaves the start of the next task
\* possible; and errors are logged only once every task has finished.
C16_ErrorIsolation ==
    /\ drv.pc \in { "fan_out", "exit" } =>
          /\ finished_indices \cap drv.in_flight = {}
          /\ finished_indices \cup drv.in_flight = 1..(drv.next - 1)
          /\ Cardinality(finished_indices) = Len(drv.process_epoch_tasks)
    /\ drv.pc = "fan_out" /\ some_failed(drv) /\ may_start(drv)
          => ENABLED DrvStartTask
    /\ drv.pc = "exit" /\ drv.exit = "success" =>
          /\ finished_indices = 1..Len(drv.epoch_data)
          /\ drv.in_flight = {}
          /\ drv.logged = errors_of(drv.process_epoch_tasks)
    /\ drv.logged # << >> =>
          /\ drv.in_flight = {}
          /\ Len(drv.process_epoch_tasks) = Len(drv.epoch_data)

\* C16 witness: with one task at a time, the first epoch's task has failed,
\* every later one has been started and has succeeded, and the error has
\* been logged at the end.
C16_Witness ==
    /\ drv.pc = "exit"
    /\ drv.parallel_limit = 1
    /\ Len(drv.epoch_data) = 3
    /\ Len(drv.process_epoch_tasks) = 3
    /\ ~IsOk(drv.process_epoch_tasks[1].result)
    /\ IsOk(drv.process_epoch_tasks[2].result)
    /\ IsOk(drv.process_epoch_tasks[3].result)
    /\ Len(drv.logged) = 1

\* C17: bounded concurrency.  The number of tasks started and not finished
\* never exceeds parallel_limit, and with parallel_limit >= 1 the fan-out,
\* whose started tasks all finish, comes to its end.
C17_BoundedConcurrency ==
    /\ [](Cardinality(drv.in_flight) <= drv.parallel_limit)
    /\ (drv.pc = "fan_out" /\ drv.parallel_limit >= 1) ~> (drv.pc = "exit")

\* C17 witness: two tasks are in progress under a limit of two while a
\* third epoch waits.
C17_Witness ==
    /\ drv.pc = "fan_out"
    /\ drv.parallel_limit = 2
    /\ Cardinality(drv.in_flight) = 2
    /\ drv.next <= Len(drv.epoch_data)

----------------------------------------------------------------------------
(* save_validator_metrics over successive writes                           *)
(*                                                                         *)
(* Every run recomputes the metrics of the epochs it processes and writes  *)
(* them again.  Two keys are written; the pool's one delegator has staked  *)
(* j at the j-th write of a key, so that every snapshot of a key differs   *)
(* from the one before.  pdd.calls counts the calls made for each key.     *)

\* the number of writes of the first key, and of the second
MaxMetricWrites == 102

MaxOtherWrites == 2

MetricKeys == { << 1, "E1" >>, << 2, "E2" >> }

MaxWritesOf(key) == IF key = << 1, "E1" >> THEN MaxMetricWrites ELSE MaxOtherWrites

\* the delegator rows of the j-th write of a key
MetricRows(key, j) ==
    { << "a", DelegatorData("a", "v", key[1], 1, 2, 0, Chars("0"), NatToString(j),
                            1, key[2], Chars("0"), 0) >> }

InitMetrics ==
    /\ cr = crIdle
    /\ spa = spaIdle
    /\ ca = caIdle
    /\ DriverIdle
    /\ GatewayIdle
    /\ SyncIdle
    /\ TxIdle
    /\ epoch_data = {}
    /\ validator_metrics = {}
    /\ delegators = {}
    /\ pdd = [ pc |-> "metrics_calls", calls |-> [ key \in MetricKeys |-> 0 ] ]

\* process_delegator_data: validator_repository::save_validator_metrics(..)
SaveValidatorMetrics ==
    /\ pdd.pc = "metrics_calls"
    /\ \E key \in MetricKeys :
          /\ pdd.calls[key] < MaxWritesOf(key)
          /\ validator_metrics' =
                save_validator_metrics(validator_metrics, "v", key[1], key[2],
                    MetricRows(key, pdd.calls[key] + 1), 0, pdd.calls[key] + 1)
          /\ pdd' = [ pdd EXCEPT !.calls[key] = @ + 1 ]
    /\ UNCHANGED << cr, spa, ca, epoch_data, delegators,
                    driverVars, gatewayVars, syncVars, txVars >>

NextMetrics == SaveValidatorMetrics

SpecMetrics == InitMetrics /\ [][NextMetrics]_vars

----------------------------------------------------------------------------
(* Claims about save_validator_metrics                                     *)

\* the snapshot the j-th write of a key carries
Snapshot(key, j) ==
    metrics_doc("v", key[1], key[2], MetricRows(key, j), 0, j)

\* the top-level fields of a document, without its history
TopLevel(d) ==
    [ validatorAccountId |-> d.validatorAccountId, epoch |-> d.epoch,
      epochId |-> d.epochId, totalStaked |-> d.totalStaked,
      totalDelegators |-> d.totalDelegators, timestamp |-> d.timestamp,
      apy |-> d.apy ]

\* C18: validator metrics uniqueness and bounded history.  After k writes of
\* a key there is exactly one document with that key (none for k = 0), its
\* top-level fields are the k-th snapshot, and its history holds the last
\* min(k, 100) snapshots in write order, so at most 100.
C18_MetricsHistory ==
    pdd.pc = "metrics_calls" =>
        \A key \in MetricKeys :
            LET k    == pdd.calls[key]
                docs == { d \in validator_metrics :
                            validator_metrics_key(d) = << "v", key[1], key[2] >> }
            IN  /\ Cardinality(docs) = IF k = 0 THEN 0 ELSE 1
                /\ \A d \in docs :
                      /\ TopLevel(d) = Snapshot(key, k)
                      /\ Len(d.history) = IF k < 100 THEN k ELSE 100
                      /\ \A i \in 1..Len(d.history) :
                            d.history[i] = Snapshot(key, k - Len(d.history) + i)

\* C18 witness: a key has been written 101 times and the first snapshot has
\* left its history.
C18_Witness ==
    /\ pdd.pc = "metrics_calls"
    /\ pdd.calls[<< 1, "E1" >>] = 101
    /\ pdd.calls[<< 2, "E2" >>] = 1
    /\ \E d \in validator_metrics :
          /\ d.epoch = 1
          /\ Len(d.history) = 100
          /\ d.history[1].totalStaked = << "2" >>
          /\ d.totalStaked = << "1", "0", "1" >>

----------------------------------------------------------------------------
(* One call of find_epoch_boundary on a chain without gaps                 *)
(*                                                                         *)
(* The caller's frame keeps the arguments of the call: the range           *)
(* [low, high] and current_epoch_id, the epoch id of the block at low, as  *)
(* get_epoch_data passes them.                                             *)

\* find_epoch_boundary is entered with (low, high, current_epoch_id)
feb_enter(low, high, current_epoch_id) ==
    [ pc |-> "bisect", low |-> low, high |-> high,
      current_epoch_id |-> current_epoch_id,
      current |-> 0, end_block |-> 0, result |-> 0 ]

InitBoundary ==
    /\ RewardsIdle
    /\ GatewayIdle
    /\ TxIdle
    /\ epoch_sync = {}
    /\ gos = gosIdle
    /\ \E B \in BoundarySets, low \in Heights, high \in Heights :
          /\ low <= high
          /\ chain = [ boundaries |-> B, missing |-> {}, latest_final |-> MaxHeight ]
          /\ ged = [ pc |-> "find_epoch_boundary", low |-> low, high |-> high,
                     current_epoch_id |-> Cardinality({ b \in B : b <= low }) ]
          /\ feb = feb_enter(low, high, Cardinality({ b \in B : b <= low }))

NextBoundary ==
    \/ FebBisect
    \/ FebLinear

SpecBoundary == InitBoundary /\ [][NextBoundary]_vars

----------------------------------------------------------------------------
(* Claims about the boundary search                                        *)

\* every height of [lo, b - 1] has the id X and every height from b on has
\* another id
IsBoundary(b, lo, X) ==
    /\ \A h \in lo..(b - 1) : EpochIdAt(h) = X
    /\ \A h \in Heights : h >= b => EpochIdAt(h) # X

\* C19: on a chain without gaps, a call find_epoch_boundary(lo, hi, X) always
\* returns; when every height of [lo, b - 1] has the id X and every height
\* from b on has another id, with lo < b <= hi, it returns exactly b; when no
\* height of [lo, hi] has an id other than X it returns hi + 1.
C19_BoundarySearch ==
    ged.pc = "find_epoch_boundary" =>
        /\ feb.pc # "hung"
        /\ feb.pc = "returned" =>
              /\ \A b \in Heights :
                    /\ ged.low < b
                    /\ b <= ged.high
                    /\ IsBoundary(b, ged.low, ged.current_epoch_id)
                    => feb.result = b
              /\ (\A h \in ged.low..ged.high : EpochIdAt(h) = ged.current_epoch_id)
                    => feb.result = ged.high + 1

\* a range wider than the linear scan's with the boundary inside, at the
\* height the bisection probed: high became boundary - 1, the linear scan met
\* no other id through high, and the call has returned the boundary
C19_Witness ==
    /\ ged.pc = "find_epoch_boundary"
    /\ feb.pc = "returned"
    /\ ged.high - ged.low > LINEAR_WIDTH
    /\ ged.low < feb.result
    /\ feb.result <= ged.high
    /\ IsBoundary(feb.result, ged.low, ged.current_epoch_id)
    /\ feb.high < ged.high
    /\ feb.result = feb.high + 1

\* a range without another id: the call has returned high + 1
C19_NoBoundaryReached ==
    /\ ged.pc = "find_epoch_boundary"
    /\ feb.pc = "returned"
    /\ ged.high - ged.low > LINEAR_WIDTH
    /\ \A h \in ged.low..ged.high : EpochIdAt(h) = ged.current_epoch_id
    /\ feb.result = ged.high + 1

----------------------------------------------------------------------------
(* fetch_new_transactions alone: the requests of one run                   *)
(*                                                                         *)
(* The loop issues its next request as soon as the sleep is over, so the   *)
(* step FetchPage is taken whenever it stays enabled.                      *)

NextFetch ==
    \/ FtxLastBlockHeight
    \/ FetchPage
    \/ HistoryGrows

SpecFetch == InitTx /\ [][NextFetch]_vars

SpecFetchLive == SpecFetch /\ WF_vars(FetchPage)

----------------------------------------------------------------------------
(* Claims about the rate limiting of the history API                       *)

\* C20 as stated: a page answered with HTTP 429 or the request-limit message
\* is requested again at most 5 times, so that the number of requests of
\* one page is bounded and the fetch ends, whatever the API answers (an API
\* that rate-limits every request included).
C20_AsStated == (ftx.pc = "fetch") ~> (ftx.pc # "fetch")

\* the counter of the for loop stays below max_retries
AttemptBelowMaxRetries == ftx.pc = "fetch" => ftx.attempt < max_retries

\* a request that leaves the loop running with nothing fetched is repeated
\* for the same page
RetriesSamePage ==
    [][ /\ ftx.pc = "fetch"
        /\ ftx'.pc = "fetch"
        /\ ftx'.all_transactions = ftx.all_transactions
        => ftx'.current_page = ftx.current_page ]_vars

----------------------------------------------------------------------------
(* One call of find_epoch_boundary on a chain with missing heights         *)
(*                                                                         *)
(* The block at MaxHeight exists, so that every get_block_info call of the *)
(* search returns.  The loop makes its next turn as soon as the answer is  *)
(* there, so its steps are taken whenever they stay enabled.               *)

\* the longest run of missing heights of these chains
MaxBoundaryGap == 5

BoundaryGaps ==
    { {} } \cup
    { { h \in Heights : g <= h /\ h < g + len } :
        g \in 0..MaxHeight, len \in 1..MaxBoundaryGap }

InitBoundaryGaps ==
    /\ RewardsIdle
    /\ GatewayIdle
    /\ TxIdle
    /\ epoch_sync = {}
    /\ gos = gosIdle
    /\ \E B \in BoundarySets, M \in BoundaryGaps, low \in Heights, high \in Heights :
          /\ Cardinality(B) <= 1
          /\ MaxHeight \notin M
          /\ low <= high
          /\ chain = [ boundaries |-> B, missing |-> M, latest_final |-> MaxHeight ]
          /\ ged = [ pc |-> "find_epoch_boundary", low |-> low, high |-> high,
                     current_epoch_id |-> Cardinality({ b \in B : b <= low }) ]
          /\ feb = feb_enter(low, high, Cardinality({ b \in B : b <= low }))

SpecBoundaryGaps == InitBoundaryGaps /\ [][NextBoundary]_vars

SpecBoundaryGapsLive == SpecBoundaryGaps /\ WF_vars(NextBoundary)

----------------------------------------------------------------------------
(* Claims about the boundary search across missing heights                 *)

\* a turn of the bisection that leaves the search in the bisection makes the
\* interval [low, high] strictly smaller
BisectionShrinks ==
    [][ /\ feb.pc = "bisect"
        /\ feb'.pc = "bisect"
        => feb'.high - feb'.low < feb.high - feb.low ]_vars

\* C21 as stated: on every chain whose get_block_info calls return (heights
\* may be missing), a call of find_epoch_boundary returns, and the interval
\* [low, high] strictly shrinks at every bisection step, also when the actual
\* height returned for mid is greater than high.
C21_AsStated ==
    /\ BisectionShrinks
    /\ (feb.pc = "bisect") ~> (feb.pc = "returned")

\* every get_block_info call of the search returns on these chains
BoundaryGapsNeverHung == feb.pc # "hung"

\* the linear scan, once entered, returns
LinearReturns == (feb.pc = "linear") ~> (feb.pc = "returned")

----------------------------------------------------------------------------
(* Claims about the heights the discoverer records                          *)

\* a block exists at the record's start_block, and the record carries that
\* block's epoch id and timestamp
StartsAtItsBlock(e) ==
    /\ Exists(e.start_block)
    /\ e.epoch_id = Block(e.start_block).epoch_id
    /\ e.timestamp = Block(e.start_block).timestamp

\* C22 as stated: on a chain with missing heights, for every EpochInfo that
\* get_epoch_data emits a block exists at start_block and the record carries
\* the epoch_id and the timestamp of that block (the loop and the linear
\* scan use the actual height get_block_info returned, never the requested
\* one, as epoch start and boundary).
C22_AsStated ==
    ged.pc = "returned" =>
        \A i \in 1..Len(ged.epochs) : StartsAtItsBlock(ged.epochs[i])

\* what the records carry: the epoch id and the timestamp of the first block
\* at or above start_block
CarriesNextBlock ==
    ged.pc = "returned" =>
        \A i \in 1..Len(ged.epochs) :
            /\ IsSome(BlockAt(ged.epochs[i].start_block))
            /\ ged.epochs[i].epoch_id =
                  Unwrap(BlockAt(ged.epochs[i].start_block))[2].epoch_id
            /\ ged.epochs[i].timestamp =
                  Unwrap(BlockAt(ged.epochs[i].start_block))[2].timestamp

----------------------------------------------------------------------------
(* Claims about the retries of get_block_info                              *)

\* the seconds slept after the n-th failed attempt at a height
BlockBackoff(n) == BACKOFF_START_BLOCK * 2 ^ (n - 1)

\* the sleeps of the attempts made so far at the current height
SleepsAtHeight ==
    SubSeq(rpc.sleeps, Len(rpc.sleeps) - rpc.retry_count + 1, Len(rpc.sleeps))

\* while get_block_info runs, fewer than 5 attempts have failed at the
\* current height, the sleeps that followed them were 1, 2, 4, 8 seconds in
\* this order, and the next sleep is the double of the last
C23_BackoffAtHeight ==
    rpc.op = "block_at" /\ rpc.pc \in { "primary", "secondary" } =>
        /\ rpc.retry_count < MAX_RETRIES_BLOCK
        /\ Len(rpc.sleeps) >= rpc.retry_count
        /\ SleepsAtHeight = [ n \in 1..rpc.retry_count |-> BlockBackoff(n) ]
        /\ rpc.backoff_time = BlockBackoff(rpc.retry_count + 1)

\* a step in which query_rpc returned an error to get_block_info: the fifth
\* failure at a height and every UNKNOWN_BLOCK move to height + 1 with the
\* counter at 0 and the backoff at 1 second, without sleeping; any earlier
\* failure sleeps and stays at the height
C23_FailedAttemptStep ==
    rpc.op = "block_at" /\ rpc.pc = "secondary" /\ rpc'.secondary # "Ok" =>
        IF rpc'.secondary = "UNKNOWN_BLOCK" \/ rpc.retry_count = MAX_RETRIES_BLOCK - 1
        THEN /\ rpc'.current_height = rpc.current_height + 1
             /\ rpc'.retry_count = 0
             /\ rpc'.backoff_time = BACKOFF_START_BLOCK
             /\ rpc'.sleeps = rpc.sleeps
             /\ rpc'.pc = "primary"
        ELSE /\ rpc'.current_height = rpc.current_height
             /\ rpc'.retry_count = rpc.retry_count + 1
             /\ rpc'.sleeps = Append(rpc.sleeps, rpc.backoff_time)
             /\ rpc'.pc = "primary"

\* C23: get_block_info retry exhaustion.  For a height that keeps failing
\* with an error other than UNKNOWN_BLOCK, get_block_info makes at most 5
\* attempts at that height, sleeping 1, 2, 4, 8 seconds between them, and
\* then moves to height + 1 with the retry counter at 0 and the backoff at 1
\* second; an UNKNOWN_BLOCK in between resets counter and backoff as well.
C23_RetryExhaustion == [] C23_BackoffAtHeight /\ [][C23_FailedAttemptStep]_vars

\* C23 witness: get_block_info(0) failed five times at height 0, slept 1, 2,
\* 4, 8 seconds, and is about to ask for height 1 with counter and backoff
\* reset.
C23_Witness ==
    /\ rpc.op = "block_at"
    /\ rpc.pc = "primary"
    /\ rpc.height = 0
    /\ rpc.current_height = 1
    /\ rpc.rounds = MAX_RETRIES_BLOCK
    /\ rpc.sleeps = << 1, 2, 4, 8 >>
    /\ rpc.retry_count = 0
    /\ rpc.backoff_time = BACKOFF_START_BLOCK

----------------------------------------------------------------------------
(* Claims about the retries of get_validators_info                         *)

\* the seconds slept after the n-th failed round
ValidatorsBackoff(n) == BACKOFF_START_VALIDATORS * 2 ^ (n - 1)

\* the attempt of an endpoint failed: a 429 or a request that was not sent
HttpFailed(o) == o \in { "TooManyRequests", "Transport" }

\* the rounds and the sleeps of a call of get_validators_info
C24_RoundsAndSleeps ==
    rpc.op = "validators" =>
        /\ rpc.rounds <= MAX_RETRIES_VALIDATORS
        /\ rpc.pc \in { "primary", "secondary" } => rpc.rounds < MAX_RETRIES_VALIDATORS
        /\ rpc.sleeps = [ n \in 1..(IF rpc.rounds < MAX_RETRIES_VALIDATORS
                                    THEN rpc.rounds
                                    ELSE MAX_RETRIES_VALIDATORS - 1)
                          |-> ValidatorsBackoff(n) ]
        /\ rpc.pc = "err" /\ HttpFailed(rpc.secondary) =>
              rpc.rounds = MAX_RETRIES_VALIDATORS
        /\ rpc.secondary # "none" => HttpFailed(rpc.primary)
        /\ rpc.pc = "ok" =>
              \/ ~HttpFailed(rpc.primary) /\ rpc.secondary = "none"
              \/ HttpFailed(rpc.primary) /\ ~HttpFailed(rpc.secondary)

\* a response with status Ok is returned by the step that receives it
C24_FirstSuccessReturned ==
    /\ rpc.op = "validators"
    /\ \/ rpc.pc = "primary" /\ rpc'.primary = "Ok"
       \/ rpc.pc = "secondary" /\ rpc'.secondary = "Ok"
    => rpc'.pc = "ok" /\ rpc'.sleeps = rpc.sleeps

----------------------------------------------------------------------------
(* Claims about unexpected answers of the history API                      *)

\* a request of the for loop's last attempt that fetched nothing: the page
\* is the same afterwards and the run has not gone on to classification
FifthRequestFailed ==
    /\ ftx.pc = "fetch"
    /\ ftx.attempt = max_retries - 1
    /\ ftx' # ftx
    /\ ftx'.current_page = ftx.current_page
    /\ ftx'.pc # "process"

\* C25 as stated: a page answered without a txns array and without a rate
\* limit is requested again; once 5 requests of the page have failed, in any
\* mix of unexpected and rate-limited answers, the fetch returns a hard
\* error, and then no transaction of the run is returned or persisted.
C25_AsStated ==
    [][ FifthRequestFailed =>
          /\ ftx'.pc = "failed"
          /\ ftx'.processed_transactions = << >>
          /\ transactions' = transactions ]_vars

\* the hard error of the retry budget leaves nothing classified, and nothing
\* is persisted after it
HardErrorKeepsNothing ==
    ftx.error = Err("MaxRetries") =>
        /\ ftx.pc = "failed"
        /\ ftx.processed_transactions = << >>

\* a fifth request answered with an unexpected shape is the hard error: the
\* only step that leaves the last attempt on the same page without failing
\* starts the attempts over
FifthRequestRestarts ==
    [][ FifthRequestFailed /\ ftx'.pc # "failed" =>
          ftx'.pc = "fetch" /\ ftx'.attempt = 0 ]_vars

----------------------------------------------------------------------------
(* One call of parse_staking_log on one log line                           *)

LogPrefixes == { Chars("@a"), Chars("Contract"), Chars("7") }

LogVerbs ==
    { Chars("deposited"), Chars("staking"), Chars("unstaking"), Chars("withdrew"),
      Chars("withdrawing"), Chars("unstaking,staking"), Chars("ping") }

LogTokens == { Chars("5"), Chars("3."), Chars("all"), Chars("1e3"), Chars("5N") }

\* the sample lines and every line `prefix verb token`
ParsedLogLines ==
    LogLines \cup
    { p \o << " " >> \o v \o << " " >> \o t :
        p \in LogPrefixes, v \in LogVerbs, t \in LogTokens }

InitLog ==
    /\ RewardsIdle
    /\ GatewayIdle
    /\ SyncIdle
    /\ history = historyIdle
    /\ transactions = << >>
    /\ ftx = ftxIdle
    /\ \E log \in ParsedLogLines :
          cls = [ pc |-> "parse_staking_log", log |-> log, result |-> None ]

\* analyze_receipt: parse_staking_log(log)
ParseStakingLog ==
    /\ cls.pc = "parse_staking_log"
    /\ cls' = [ cls EXCEPT !.pc = "parsed", !.result = parse_staking_log(cls.log) ]
    /\ UNCHANGED << rewardsVars, gatewayVars, syncVars, history, transactions, ftx >>

NextLog == ParseStakingLog

SpecLog == InitLog /\ [][NextLog]_vars

----------------------------------------------------------------------------
(* Claims about the keyword table                                          *)

\* the line is for the keyword table: no dist.stak event, a table keyword
\* and a numeric token
KeywordLine(log) ==
    /\ ~Contains(log, Chars("\"event\":\"dist.stak\""))
    /\ \E k \in 1..Len(staking_keywords) : Contains(log, Chars(staking_keywords[k][1]))
    /\ IsSome(first_numeric(log))

\* C26 as stated: a log line that is not a dist.stak event, contains a table
\* keyword and a numeric token is classified by the table deposited -> stake,
\* staking -> stake, unstaking -> unstake, withdrew -> unstake; in particular
\* every such line that contains the word unstaking yields an unstake record.
C26_AsStated ==
    cls.pc = "parsed" /\ KeywordLine(cls.log) =>
        /\ IsSome(cls.result)
        /\ \E k \in 1..Len(staking_keywords) :
              /\ Contains(cls.log, Chars(staking_keywords[k][1]))
              /\ Unwrap(cls.result).action = staking_keywords[k][2]
        /\ Contains(cls.log, Chars("unstaking")) =>
              Unwrap(cls.result).action = "unstake"

\* what the loop does: the first table entry whose keyword the line contains
\* gives the action, and the first numeric token the amount
FirstKeywordWins ==
    cls.pc = "parsed" /\ KeywordLine(cls.log) =>
        LET k == CHOOSE k \in 1..Len(staking_keywords) :
                     /\ Contains(cls.log, Chars(staking_keywords[k][1]))
                     /\ \A j \in 1..(k - 1) :
                           ~Contains(cls.log, Chars(staking_keywords[j][1]))
        IN  cls.result = Some(StakingAction(staking_keywords[k][2],
                                            Unwrap(first_numeric(cls.log)), "unknown"))

\* no line with the word unstaking yields an unstake record
UnstakingNeverUnstake ==
    cls.pc = "parsed" /\ KeywordLine(cls.log) /\ Contains(cls.log, Chars("unstaking")) =>
        Unwrap(cls.result).action = "stake"

----------------------------------------------------------------------------
(* Claims about get_unstake_amount at block height 0                       *)

\* the classification calls get_unstake_amount for the first receipt, and
\* the transaction's top-level block_height is 0 or missing
UnstakeCalledAtZero ==
    /\ cls.env.status = "Ok"
    /\ unwrap_or(cls.tx.block_height, 0) = 0
    /\ Len(cls.tx.tx_data.receipts_outcome) >= 1
    /\ cls.tx.tx_data.receipts_outcome[1].logs = << >>
    /\ Len(cls.tx.tx_data.receipts_outcome[1].actions) = 1
    /\ IsSome(cls.tx.tx_data.receipts_outcome[1].actions[1])
    /\ Unwrap(cls.tx.tx_data.receipts_outcome[1].actions[1]).method_name
          \in { "unstake", "unstake_all" }

\* C27 as stated: when the transaction's block height is 0, or missing and
\* read as 0, resolving an unstake / unstake_all amount never underflows,
\* panics or queries the chain at a wrapped-around height: classification
\* continues, and an unstake_all resolves to the amount "0".
C27_AsStated ==
    cls.pc = "done" /\ UnstakeCalledAtZero =>
        /\ cls.result[1] # "Panic"
        /\ cls.result # Err("Rpc")
        /\ /\ Len(cls.tx.tx_data.receipts_outcome) = 1
           /\ Unwrap(cls.tx.tx_data.receipts_outcome[1].actions[1]).method_name
                 = "unstake_all"
           => /\ IsOk(cls.result)
              /\ IsSome(Val(cls.result))
              /\ Unwrap(Val(cls.result)).amount = Chars("0")

\* what happens: block_height - 1 overflows, and the call ends in the panic
\* or in the error of the query at the wrapped height
UnstakeAtZeroFails ==
    cls.pc = "done" /\ UnstakeCalledAtZero =>
        \/ cls.result[1] = "Panic" /\ cls.env.overflow = "panic"
        \/ cls.result = Err("Rpc") /\ cls.env.overflow = "wrap"

----------------------------------------------------------------------------
(* Claims about the aggregation of receipts                                *)

\* what the i-th receipt of the classified transaction resolves to
ReceiptResult(i) ==
    analyze_receipt(cls.tx.tx_data.receipts_outcome[i], cls.tx, cls.env)

\* the receipts that resolve to a record
ResolvingReceipts ==
    { i \in 1..Len(cls.tx.tx_data.receipts_outcome) :
        IsOk(ReceiptResult(i)) /\ IsSome(Val(ReceiptResult(i))) }

\* the normalized amount of a resolving receipt
NormalizedAmount(i) ==
    Unwrap(BigIntFromStr(Val(safe_parse_amount(Unwrap(Val(ReceiptResult(i))).amount))))

RECURSIVE SumOfAmounts(_)
SumOfAmounts(S) ==
    IF S = {} THEN 0
    ELSE LET i == CHOOSE i \in S : TRUE
         IN  NormalizedAmount(i) + SumOfAmounts(S \ { i })

\* C28: receipt aggregation.  When the receipts of a transaction that
\* resolve to a record all resolve to the same action, the record of the
\* transaction has that action and the sum of the normalized amounts of
\* those receipts as its amount; receipts that resolve to no record
\* contribute nothing.
C28_ReceiptAggregation ==
    /\ cls.pc = "done"
    /\ IsOk(cls.result)
    /\ IsSome(Val(cls.result))
    /\ cls.env.status = "Ok"
    /\ ResolvingReceipts # {}
    => \A a \in { "stake", "unstake" } :
          (\A i \in ResolvingReceipts : Unwrap(Val(ReceiptResult(i))).action = a)
          => /\ Unwrap(Val(cls.result)).action = a
             /\ Unwrap(Val(cls.result)).amount =
                   BigIntToString(SumOfAmounts(ResolvingReceipts))

\* C28 witness: the log line "@a withdrew 2" and an unstake call with the
\* argument amount 3 resolve to unstake records; the record of the
\* transaction is an unstake of 5.
C28_Witness ==
    /\ cls.pc = "done"
    /\ IsOk(cls.result)
    /\ IsSome(Val(cls.result))
    /\ Len(cls.tx.tx_data.receipts_outcome) = 2
    /\ ResolvingReceipts = { 1, 2 }
    /\ NormalizedAmount(1) = 2
    /\ NormalizedAmount(2) = 3
    /\ Unwrap(Val(cls.result)).action = "unstake"
    /\ Unwrap(Val(cls.result)).amount = Chars("5")

\* a receipt that resolves to no record next to one that does: the record is
\* the resolving receipt's
C28_SkippedReceiptReached ==
    /\ cls.pc = "done"
    /\ IsOk(cls.result)
    /\ IsSome(Val(cls.result))
    /\ Len(cls.tx.tx_data.receipts_outcome) = 2
    /\ ResolvingReceipts = { 2 }
    /\ IsOk(ReceiptResult(1))
    /\ Unwrap(Val(cls.result)).amount = BigIntToString(NormalizedAmount(2))

----------------------------------------------------------------------------
(* Claims about the windows of the epoch tasks                             *)
(*                                                                         *)
(* The epoch lists are the lists get_or_sync_epoch_data returns over       *)
(* successive runs; the driver gives the task of the epoch at index the    *)
(* window [start_block, end_block_of(list, index)].                        *)

\* the epoch tasks whose epoch_transactions hold a transaction at height h
CountingTasks(epochs, h) ==
    { index \in 1..Len(epochs) :
        epoch_transactions_of(<< EpochTx(1, "stake", h, "a") >>,
                              epochs[index].start_block,
                              end_block_of(epochs, index)) # << >> }

\* C29 as stated: with the windows the driver computes, every transaction
\* of the run whose block_height is at least the first epoch's start_block
\* is counted in the epoch transactions of exactly one epoch task, for every
\* epoch list the driver can receive.
C29_AsStated ==
    gos.pc = "returned" /\ gos.all_epochs # << >> =>
        \A h \in Heights :
            h >= gos.all_epochs[1].start_block =>
                Cardinality(CountingTasks(gos.all_epochs, h)) = 1

\* the windows of a list whose start_block values never decrease, and are
\* not 0 after the first, partition the heights from the first start_block
NonDecreasingPartition ==
    /\ gos.pc = "returned"
    /\ gos.all_epochs # << >>
    /\ \A i \in 1..(Len(gos.all_epochs) - 1) :
          /\ gos.all_epochs[i].start_block <= gos.all_epochs[i + 1].start_block
          /\ gos.all_epochs[i + 1].start_block > 0
    => \A h \in Heights :
          h >= gos.all_epochs[1].start_block =>
              Cardinality(CountingTasks(gos.all_epochs, h)) = 1


----------------------------------------------------------------------------
(* The epoch tasks of one run, write by write                              *)
(*                                                                         *)
(* The same driver with each epoch task taken one store write at a time:   *)
(* the tasks in progress under buffer_unordered are polled in any order,   *)
(* and each of them yields at the await of every write, so that the        *)
(* writes of different tasks interleave.                                   *)

\* the frame of the task of the epoch at index is replaced
drv_task_at(f, index, frame) ==
    [ f EXCEPT !.tasks = HashMapInsert(@, index, frame) ]

\* the task of the epoch at index returns; its result joins the collected
\* ones in completion order
drv_task_returns(f, index, result) ==
    [ f EXCEPT !.in_flight = @ \ { index },
               !.tasks = { p \in @ : p[1] # index },
               !.process_epoch_tasks =
                   Append(@, [ index |-> index, result |-> result ]) ]

\* a task in progress writes its epoch_data document
TaskSaveEpochData ==
    /\ drv.pc = "fan_out"
    /\ \E index \in drv.in_flight, outcome \in StoreOutcomes :
          /\ Unwrap(HashMapGet(drv.tasks, index)).pc = "save_epoch_data"
          /\ IF outcome = "Ok"
             THEN /\ epoch_data' = save_epoch_data(epoch_data,
                                       Unwrap(HashMapGet(drv.tasks, index)))
                  /\ drv' = drv_task_at(drv, index,
                                [ Unwrap(HashMapGet(drv.tasks, index)) EXCEPT
                                    !.pc = "save_validator_metrics" ])
             ELSE /\ drv' = drv_task_returns(drv, index, Err("Db"))
                  /\ UNCHANGED epoch_data
    /\ UNCHANGED << cr, spa, ca, pdd, validator_metrics, delegators,
                    gatewayVars, syncVars, txVars >>

\* the frame after the write to validator_metrics
task_after_metrics(frame) ==
    [ frame EXCEPT !.pc = "save_delegator_data",
                   !.pending = { p[2] : p \in frame.delegator_data } ]

\* a task in progress writes its validator_metrics document
TaskSaveValidatorMetrics ==
    /\ drv.pc = "fan_out"
    /\ \E index \in drv.in_flight, outcome \in StoreOutcomes :
          /\ Unwrap(HashMapGet(drv.tasks, index)).pc = "save_validator_metrics"
          /\ IF outcome = "Ok"
             THEN /\ validator_metrics' =
                        save_validator_metrics(validator_metrics,
                            Unwrap(HashMapGet(drv.tasks, index)).validator_account_id,
                            Unwrap(HashMapGet(drv.tasks, index)).epoch_number,
                            Unwrap(HashMapGet(drv.tasks, index)).epoch_id,
                            Unwrap(HashMapGet(drv.tasks, index)).delegator_data,
                            Unwrap(HashMapGet(drv.tasks, index)).epoch_timestamp,
                            Unwrap(HashMapGet(drv.tasks, index)).validator_apy)
                  /\ drv' = IF Unwrap(HashMapGet(drv.tasks, index)).delegator_data = {}
                            THEN drv_task_returns(drv, index, Ok(""))
                            ELSE drv_task_at(drv, index,
                                     task_after_metrics(
                                         Unwrap(HashMapGet(drv.tasks, index))))
             ELSE /\ drv' = drv_task_returns(drv, index, Err("Db"))
                  /\ UNCHANGED validator_metrics
    /\ UNCHANGED << cr, spa, ca, pdd, epoch_data, delegators,
                    gatewayVars, syncVars, txVars >>

\* a task in progress writes its next delegators row, and returns after
\* the last one
TaskSaveDelegatorData ==
    /\ drv.pc = "fan_out"
    /\ \E index \in drv.in_flight, outcome \in StoreOutcomes :
          /\ Unwrap(HashMapGet(drv.tasks, index)).pc = "save_delegator_data"
          /\ \E data \in Unwrap(HashMapGet(drv.tasks, index)).pending :
                IF outcome = "Ok"
                THEN /\ delegators' = save_delegator_row(delegators, data)
                     /\ drv' = IF Unwrap(HashMapGet(drv.tasks, index)).pending = { data }
                               THEN drv_task_returns(drv, index, Ok(""))
                               ELSE drv_task_at(drv, index,
                                        [ Unwrap(HashMapGet(drv.tasks, index)) EXCEPT
                                            !.pending = @ \ { data } ])
                ELSE /\ drv' = drv_task_returns(drv, index, Err("Db"))
                     /\ UNCHANGED delegators
    /\ UNCHANGED << cr, spa, ca, pdd, epoch_data, validator_metrics,
                    gatewayVars, syncVars, txVars >>

NextWrites ==
    \/ DrvFetch
    \/ DrvStartBlock
    \/ DrvEpochData
    \/ DrvStartTask
    \/ TaskSaveEpochData
    \/ TaskSaveValidatorMetrics
    \/ TaskSaveDelegatorData
    \/ DrvReport

SpecWrites == InitDriver /\ [][NextWrites]_vars

----------------------------------------------------------------------------
(* Claims about the writes of the epoch tasks                              *)

\* the documents the task of the epoch at index writes into an empty store
EpochDataWrites(index) == save_epoch_data({}, task_frame(drv, index))

MetricsWrites(index) ==
    save_validator_metrics({}, task_frame(drv, index).validator_account_id,
        task_frame(drv, index).epoch_number, task_frame(drv, index).epoch_id,
        task_frame(drv, index).delegator_data,
        task_frame(drv, index).epoch_timestamp,
        task_frame(drv, index).validator_apy)

DelegatorWrites(index) ==
    save_delegator_rows({}, { p[2] : p \in task_frame(drv, index).delegator_data })

\* the task of the epoch at index has returned Ok
TaskReturnedOk(index) ==
    \E k \in 1..Len(drv.process_epoch_tasks) :
        /\ drv.process_epoch_tasks[k].index = index
        /\ IsOk(drv.process_epoch_tasks[k].result)

\* the task of the epoch at index is in progress at one of the steps
TaskAt(index, steps) ==
    /\ index \in drv.in_flight
    /\ Unwrap(HashMapGet(drv.tasks, index)).pc \in steps

\* no two tasks of the run write a document with the same key
DisjointKeys ==
    \A i, j \in 1..Len(drv.epoch_data) :
        i # j =>
            /\ { epoch_data_key(d) : d \in EpochDataWrites(i) }
                   \cap { epoch_data_key(d) : d \in EpochDataWrites(j) } = {}
            /\ { validator_metrics_key(d) : d \in MetricsWrites(i) }
                   \cap { validator_metrics_key(d) : d \in MetricsWrites(j) } = {}
            /\ { delegators_key(d) : d \in DelegatorWrites(i) }
                   \cap { delegators_key(d) : d \in DelegatorWrites(j) } = {}

\* every document of the store is the one its task writes on its own
OnlyOwnDocuments ==
    /\ epoch_data \subseteq
           UNION { EpochDataWrites(i) : i \in 1..(drv.next - 1) }
    /\ validator_metrics \subseteq
           UNION { MetricsWrites(i) : i \in 1..(drv.next - 1) }
    /\ delegators \subseteq
           UNION { DelegatorWrites(i) : i \in 1..(drv.next - 1) }

\* every write made so far is in the store as it was written
WritesKept ==
    \A i \in 1..(drv.next - 1) :
        /\ TaskReturnedOk(i)
             \/ TaskAt(i, { "save_validator_metrics", "save_delegator_data" })
                => EpochDataWrites(i) \subseteq epoch_data
        /\ TaskReturnedOk(i) \/ TaskAt(i, { "save_delegator_data" })
                => MetricsWrites(i) \subseteq validator_metrics
        /\ TaskReturnedOk(i) => DelegatorWrites(i) \subseteq delegators
        /\ TaskAt(i, { "save_delegator_data" })
                => \A d \in DelegatorWrites(i) :
                       d \in delegators
                          \/ \E data \in Unwrap(HashMapGet(drv.tasks, i)).pending :
                                d \in save_delegator_row({}, data)

\* C30: within one run no two epoch tasks write a document with the same
\* key in epoch_data, validator_metrics or delegators, so that whatever
\* the interleaving of their writes, the store holds exactly the documents
\* each task writes on its own: every document of the store is the one its
\* task writes into an empty store, and every write made is still there
C30_NoWriteContention ==
    drv.pc \in { "fan_out", "exit" } =>
        /\ DisjointKeys
        /\ OnlyOwnDocuments
        /\ WritesKept

\* two tasks of epochs with the same epoch id ran together, the second
\* returned before the first, and the store holds the documents of both
C30_Witness ==
    /\ drv.pc = "exit"
    /\ drv.parallel_limit = 2
    /\ Len(drv.epoch_data) = 2
    /\ drv.epoch_data[1].epoch_id = drv.epoch_data[2].epoch_id
    /\ Len(drv.process_epoch_tasks) = 2
    /\ drv.process_epoch_tasks[1].index = 2
    /\ drv.process_epoch_tasks[2].index = 1
    /\ TaskReturnedOk(1)
    /\ TaskReturnedOk(2)
    /\ Cardinality(epoch_data) = 2
    /\ Cardinality(validator_metrics) = 2
    /\ Cardinality(delegators) = 2

\* the writes of two tasks interleave: the second task is past its
\* validator_metrics write while the first is between its first two writes
C30_InterleavedReached ==
    ~ ( /\ drv.pc = "fan_out"
        /\ TaskAt(1, { "save_validator_metrics" })
        /\ TaskAt(2, { "save_delegator_data" }) )


----------------------------------------------------------------------------
(* Claims about the persistence of the discovered epochs                   *)

\* C31 as stated: each EpochInfo is upserted into epoch_sync as soon as it
\* is discovered, before the discovery of the next epoch begins, so that a
\* discovery that stops after k epochs leaves those k epochs persisted.
C31_AsStated ==
    gos.pc = "discover" /\ ged.pc \in { "loop", "find", "hung" } =>
        \A k \in 1..Len(ged.epochs) : ged.epochs[k] \in epoch_sync

\* while get_epoch_data runs the collection is not written
DiscoveryWritesNothing ==
    [][gos.pc = "discover" => epoch_sync' = epoch_sync]_vars

\* a fresh discovery that never returns leaves the collection empty
HungFreshLeavesNothing ==
    gos.pc = "discover" /\ gos.path = "fresh" => epoch_sync = {}


----------------------------------------------------------------------------
(* Claims about initial_stake                                              *)

\* the transactions of a delegator inside the window, by their position
WindowTxs(txs, delegator, start, end) ==
    { i \in 1..Len(txs) :
        /\ txs[i].delegator_address = delegator
        /\ start <= txs[i].block_height
        /\ txs[i].block_height <= end }

\* the signed sum of the amounts of the transactions at the positions S
RECURSIVE NetDelta(_, _)
NetDelta(txs, S) ==
    IF S = {} THEN 0
    ELSE LET i == CHOOSE j \in S : TRUE
         IN  (IF txs[i].type_ = "stake" THEN BigIntOrZero(txs[i].amount)
              ELSE IF txs[i].type_ = "unstake" THEN 0 - BigIntOrZero(txs[i].amount)
              ELSE 0)
             + NetDelta(txs, S \ { i })

\* the row's initial_stake is the net delta of its delegator in the window
\* of the task, which is the transaction total of the reward derivation
InitialStakeIsNetDelta(data) ==
    /\ BigIntFromStr(data.initial_stake) =
           Some(NetDelta(pdd.transactions,
                    WindowTxs(pdd.transactions, data.delegator_id,
                              pdd.start_block_height, pdd.end_block_height)))
    /\ BigIntFromStr(data.initial_stake) =
           Some(unwrap_or(HashMapGet(pdd.epoch_transaction_totals,
                                     data.delegator_id), 0))

C32_OutsideWindowReached ==
    ~ ( /\ Len(pdd.transactions) = 2
        /\ WindowTxs(pdd.transactions, "a", 0, u64_MAX) = { 1, 2 }
        /\ WindowTxs(pdd.transactions, "a", pdd.start_block_height,
                     pdd.end_block_height) = { 2 }
        /\ \E d \in delegators :
              d.delegatorId = "a" /\ d.data.initial_stake = << "-", "2" >> )

\* a delegator without a transaction in the window has initial_stake 0
C32_NoTransactionReached ==
    ~ ( \E d \in delegators :
          /\ WindowTxs(pdd.transactions, d.delegatorId, pdd.start_block_height,
                       pdd.end_block_height) = {}
          /\ d.data.initial_stake = << "0" >> )


----------------------------------------------------------------------------
(* Claims about the epoch ordinals                                         *)

\* the ordinals (index + 1) the driver gives an epoch id in a list
OrdinalsOf(epochs, epoch_id) ==
    { i \in 1..Len(epochs) : epochs[i].epoch_id = epoch_id }

\* the ordinals a later run that takes the persisted list as complete gives
\* an epoch id: the positions get_epoch_sync_by_index can return it at
PersistedOrdinalsOf(db, epoch_id) ==
    { i \in 1..Cardinality(db) :
        \E d \in get_epoch_sync_by_index(db, i - 1) : d.epoch_id = epoch_id }

\* C33 as stated: the ordinal the driver assigns to an epoch id (index + 1
\* in the list get_or_sync_epoch_data returns) is the same in every run:
\* each epoch id of the returned list is at a single ordinal, and that is
\* the ordinal a later run reading the persisted list gives it.
C33_AsStated ==
    gos.pc = "returned" =>
        \A i \in 1..Len(gos.all_epochs) :
            /\ OrdinalsOf(gos.all_epochs, gos.all_epochs[i].epoch_id) = { i }
            /\ PersistedOrdinalsOf(epoch_sync, gos.all_epochs[i].epoch_id) = { i }

\* the run that takes the persisted list as complete gives every epoch id
\* the ordinal of its document
ExistingPathOrdinals ==
    gos.pc = "returned" /\ gos.path = "existing" =>
        \A i \in 1..Len(gos.all_epochs) :
            /\ OrdinalsOf(gos.all_epochs, gos.all_epochs[i].epoch_id) = { i }
            /\ PersistedOrdinalsOf(epoch_sync, gos.all_epochs[i].epoch_id) = { i }

\* a fresh discovery that emitted every epoch id once does the same
FreshPathOrdinals ==
    gos.pc = "returned" /\ gos.path = "fresh" /\ DistinctIds(gos.all_epochs) =>
        \A i \in 1..Len(gos.all_epochs) :
            PersistedOrdinalsOf(epoch_sync, gos.all_epochs[i].epoch_id) = { i }

\* no resume returns a list whose epoch ids are each at a single ordinal
ResumeRepeatsLatest ==
    gos.pc = "returned" /\ gos.path = "resume" =>
        \E i \in 1..Len(gos.all_epochs) :
            OrdinalsOf(gos.all_epochs, gos.all_epochs[i].epoch_id) # { i }


----------------------------------------------------------------------------
(* Successive runs of the program: the transaction source and the driver   *)
(*                                                                         *)
(* Each run calls fetch_and_process_transactions on the transactions       *)
(* collection the earlier runs left, and hands the batch it returns to the *)
(* driver; get_or_sync_epoch_data and the epoch tasks are taken with their *)
(* outcomes as in SpecDriver.                                              *)

\* the histories of the runs: stakes announced by a log line
RunHistories ==
    { h \in Histories : \A i \in 1..Len(h) : h[i].shape = "stake_log" }

InitRuns ==
    /\ cr = crIdle
    /\ ProcessorIdle
    /\ GatewayIdle
    /\ SyncIdle
    /\ cls = clsIdle
    /\ transactions = << >>
    /\ ftx = ftx_enter(1)
    /\ drv = drv_enter(1)
    /\ \E h \in RunHistories : history = [ txns |-> WithHashes(h), visible |-> 0 ]

\* main: fetch_and_process_transactions(..).await? has returned
RunFetched ==
    /\ drv.pc = "fetch"
    /\ ftx.pc \in { "returned", "failed" }
    /\ drv' = IF ftx.pc = "returned"
              THEN [ drv EXCEPT !.pc = "start_block",
                                !.new_transactions = ftx.processed_transactions ]
              ELSE drv_exit(drv, "failure")
    /\ UNCHANGED << cr, processorVars, gatewayVars, syncVars, txVars >>

\* the program is run again after the run has ended
RunAgain ==
    /\ drv.pc = "exit"
    /\ ftx.run < MaxTxRuns
    /\ ftx' = ftx_enter(ftx.run + 1)
    /\ drv' = drv_enter(drv.parallel_limit)
    /\ UNCHANGED << cr, processorVars, gatewayVars, syncVars,
                    history, transactions, cls >>

NextRuns ==
    \/ FtxLastBlockHeight
    \/ FetchPage
    \/ ProcessTransaction
    \/ SaveTransactions
    \/ HistoryGrows
    \/ RunFetched
    \/ DrvStartBlock
    \/ DrvEpochData
    \/ DrvStartTask
    \/ DrvFinishTask
    \/ DrvReport
    \/ RunAgain

SpecRuns == InitRuns /\ [][NextRuns]_vars

----------------------------------------------------------------------------
(* Claims about the transactions handed to the epoch tasks                 *)

\* the run inserted transactions and ended without reaching the fan-out
EndedBeforeFanOut ==
    /\ drv.pc = "exit"
    /\ drv.exit # "success"
    /\ ftx.pc = "returned"
    /\ ftx.processed_transactions # << >>

\* a later run can still fetch the transaction: its block height is above
\* the height fetch_and_process_transactions resumes after
StillFetchable(tx) ==
    \E last_transaction \in get_latest_transaction(transactions) :
        tx.block_height > last_transaction.block_height

\* C34 as stated: every transaction inserted into the transactions
\* collection is in the list passed to the fan-out of the epoch tasks, in
\* the run that inserted it or in a later run.  A list passed to the
\* fan-out is the batch of its run, so the transactions a run inserted
\* without reaching the fan-out must be left for a later run to fetch.
C34_AsStated ==
    EndedBeforeFanOut =>
        \A i \in 1..Len(ftx.processed_transactions) :
            StillFetchable(ftx.processed_transactions[i])

\* a batch is made of transactions above every persisted block height
BatchAboveStore ==
    ftx.pc \in { "process", "save" } =>
        \A i \in 1..Len(ftx.all_transactions) :
            ftx.all_transactions[i].block_height > ftx.last_block_height

\* a run that reaches the fan-out passes the transactions it inserted
SameRunPassed ==
    drv.pc = "fan_out" => drv.new_transactions = ftx.processed_transactions


\* the transaction with this hash is in a list
HasHash(txs, hash) == \E i \in 1..Len(txs) : txs[i].transaction_hash = hash

\* the fetch of a run leaves out the persisted transactions
SecondRunLeavesOut ==
    ftx.run > 1 /\ ftx.pc \in { "process", "save", "returned" } =>
        \A i \in 1..Len(ftx.all_transactions), j \in 1..Len(transactions) :
            \/ ftx.all_transactions[i].transaction_hash # transactions[j].transaction_hash
            \/ /\ ftx.pc = "returned"
               /\ HasHash(ftx.processed_transactions, transactions[j].transaction_hash)

\* a second run ended with success without the transaction the first run
\* inserted in its list
C34_SkippedReached ==
    ~ ( /\ ftx.run = 2
        /\ drv.pc = "exit"
        /\ drv.exit = "success"
        /\ HasHash(transactions, 1)
        /\ ~HasHash(drv.new_transactions, 1) )


----------------------------------------------------------------------------
(* get_block_info on endpoints that serve a chain                          *)
(*                                                                         *)
(* The endpoints serve the heights up to chain.latest_final that are not   *)
(* in chain.missing and answer UNKNOWN_BLOCK for every other height.  A    *)
(* request of a served height may fail for a transient reason on both      *)
(* endpoints chain.faults more times; after that it is served.             *)

\* the greatest height the walk of get_block_info is followed to
MaxProbe == MaxBlockHeight + 2

Served(h) == h <= chain.latest_final /\ h \notin chain.missing

\* what an endpoint can answer to a request of the block at height h
AnswersAt(h) ==
    IF Served(h)
    THEN { "Ok" } \cup (IF chain.faults > 0 THEN { "TooManyRequests", "Transport" }
                        ELSE {})
    ELSE { "UNKNOWN_BLOCK" }

InitBlockAt ==
    /\ RewardsIdle
    /\ TxIdle
    /\ epoch_sync = {}
    /\ gos = gosIdle
    /\ ged = gedIdle
    /\ feb = febIdle
    /\ \E tip \in 0..MaxBlockHeight, M \in SUBSET (0..MaxBlockHeight),
          faults \in 0..MAX_RETRIES_BLOCK, h \in 0..MaxBlockHeight :
          /\ tip \notin M
          /\ chain = [ boundaries |-> {}, missing |-> M, latest_final |-> tip,
                       faults |-> faults ]
          /\ rpc = [ pc |-> "primary", op |-> "block_at", height |-> h,
                     current_height |-> h, from_index |-> 0,
                     max_retries |-> MAX_RETRIES_BLOCK, retry_count |-> 0,
                     backoff_time |-> BACKOFF_START_BLOCK,
                     primary |-> "none", secondary |-> "none",
                     rounds |-> 0, sleeps |-> << >>, result |-> None ]

\* query_rpc in get_block_info: the call on the primary endpoint
BlockAtPrimary ==
    /\ rpc.pc = "primary"
    /\ \E o \in AnswersAt(rpc.current_height) :
          rpc' = IF o = "Ok"
                 THEN get_block_info_ok([ rpc EXCEPT !.primary = o,
                                                     !.secondary = "none" ])
                 ELSE [ rpc EXCEPT !.primary = o, !.secondary = "none",
                                   !.pc = "secondary" ]
    /\ UNCHANGED << rewardsVars, txVars, chain, epoch_sync, gos, ged, feb >>

\* query_rpc in get_block_info: the call on the secondary endpoint, and the
\* arm of get_block_info's match
BlockAtSecondary ==
    /\ rpc.pc = "secondary"
    /\ \E o \in AnswersAt(rpc.current_height) :
          /\ rpc' = IF o = "Ok"
                    THEN get_block_info_ok([ rpc EXCEPT !.secondary = o ])
                    ELSE OnRpcErr([ rpc EXCEPT !.secondary = o ], o)
          /\ chain' = IF o \in { "TooManyRequests", "Transport" }
                      THEN [ chain EXCEPT !.faults = @ - 1 ]
                      ELSE chain
          /\ rpc'.current_height <= MaxProbe
    /\ UNCHANGED << rewardsVars, txVars, epoch_sync, gos, ged, feb >>

NextBlockAt ==
    \/ BlockAtPrimary
    \/ BlockAtSecondary

SpecBlockAt == InitBlockAt /\ [][NextBlockAt]_vars

----------------------------------------------------------------------------
(* Claims about the walk of get_block_info                                 *)

\* a height at or above h is served
ServedFrom(h) == \E a \in 0..MaxBlockHeight : a >= h /\ Served(a)

\* C35 as stated: if some height at or above the requested one is served
\* from some point on, get_block_info(h) eventually returns: it does not
\* walk past every served height, after which every height it probes
\* answers UNKNOWN_BLOCK.
C35_AsStated ==
    rpc.pc \in { "primary", "secondary" } /\ ServedFrom(rpc.height) =>
        ServedFrom(rpc.current_height)

\* past the last served height the call has not returned and never does
PastServedNeverReturns ==
    [][~ServedFrom(rpc.current_height) =>
          rpc'.pc # "ok" /\ ~ServedFrom(rpc'.current_height)]_vars

\* a call that has slept fewer than max_retries - 1 times has not walked
\* past a served height
FewFaultsStayBelow ==
    rpc.pc \in { "primary", "secondary" } /\ ServedFrom(rpc.height)
        /\ Len(rpc.sleeps) < MAX_RETRIES_BLOCK - 1 =>
        ServedFrom(rpc.current_height)


----------------------------------------------------------------------------
(* Claims about the heights the discoverer requests                        *)

\* the heights the next step of the discovery requests from get_block_info
NextProbes ==
    IF ged.pc = "initial" THEN { ged.start_block_height }
    ELSE IF ged.pc # "find" THEN {}
    ELSE IF feb.pc = "bisect" /\ feb.low <= feb.high
            /\ feb.high - feb.low > LINEAR_WIDTH
    THEN { feb.low + (feb.high - feb.low) \div 2 }
    ELSE IF feb.pc = "linear" /\ feb.current <= feb.end_block
    THEN { feb.current }
    ELSE IF feb.pc = "returned" THEN { feb.result }
    ELSE {}

\* C36 as stated: during get_epoch_data every height requested through
\* get_block_info (bisection midpoints, linear-scan probes and the fetch of
\* the boundary block) is at most the latest final height read at the start
\* of the discovery.
C36_AsStated ==
    ged.pc \in { "initial", "find" } =>
        \A h \in NextProbes : h <= ged.current_block

\* on a chain without missing heights the requests stay within half an
\* epoch length above the latest final height
ProbesWithinBuffer ==
    ged.pc = "find" /\ chain.missing = {} =>
        \A h \in NextProbes : h <= ged.current_block + EPOCH_BLOCKS \div 2

\* the bisection midpoints stay below the search window's upper end
MidpointsBelowWindow ==
    ged.pc = "find" /\ feb.pc = "bisect" /\ chain.missing = {} =>
        \A h \in NextProbes : h < ged.current_block + EPOCH_BLOCKS \div 2


----------------------------------------------------------------------------
(* Claims about the range of the boundary                                  *)

\* the bounds get_epoch_data passed to the search in progress
SearchLow == ged.current_height

SearchHigh == ged.current_height + EPOCH_BLOCKS + EPOCH_BLOCKS \div 2

\* every complete epoch of the list starts at or below its end
CompleteEpochsOrdered ==
    \A k \in 1..Len(ged.epochs) :
        ged.epochs[k].start_block <= Unwrap(ged.epochs[k].end_block)

\* C37 as stated: for every chain (missing heights included) the value b
\* find_epoch_boundary(lo, hi, id) returns satisfies lo <= b <= hi + 1, and
\* for every complete epoch the discovery emits the boundary is strictly
\* greater than the epoch's start, so that start_block <= end_block.
C37_AsStated ==
    /\ ged.pc = "find" /\ feb.pc = "returned" =>
          /\ SearchLow <= feb.result
          /\ feb.result <= SearchHigh + 1
          /\ feb.result > ged.epoch_start_block
    /\ ged.pc \in { "loop", "find", "final" } => CompleteEpochsOrdered

\* the lower half: the boundary is above the start of the search, and the
\* complete epochs are not empty
BoundaryAboveStart ==
    /\ ged.pc = "find" /\ feb.pc = "returned" =>
          /\ SearchLow < feb.result
          /\ feb.result > ged.epoch_start_block
    /\ ged.pc \in { "loop", "find", "final" } => CompleteEpochsOrdered

\* the upper half on a chain without missing heights
BoundaryWithinWindow ==
    ged.pc = "find" /\ feb.pc = "returned" /\ chain.missing = {} =>
        feb.result <= SearchHigh + 1


----------------------------------------------------------------------------
(* Claims about the order of the reads and writes of an epoch task         *)

\* the rows of the task that are in the delegators collection
RowsWritten ==
    { p[2] : p \in { q \in pdd.delegator_data :
                       save_delegator_row({}, q[2]) \subseteq delegators } }

\* before the chain reads are over nothing is written, the collections are
\* written in the order epoch_data, validator_metrics, delegators, and
\* each holds what the task has written so far
WritesArePrefix ==
    /\ pdd.pc \in { "start", "accounts" } =>
          epoch_data = {} /\ validator_metrics = {} /\ delegators = {}
    /\ pdd.pc = "failed" /\ pdd.result = Err("Rpc") =>
          epoch_data = {} /\ validator_metrics = {} /\ delegators = {}
    /\ pdd.pc = "save_epoch_data" =>
          epoch_data = {} /\ validator_metrics = {} /\ delegators = {}
    /\ pdd.pc = "save_validator_metrics" =>
          epoch_data = save_epoch_data({}, pdd)
             /\ validator_metrics = {} /\ delegators = {}
    /\ validator_metrics # {} => epoch_data # {}
    /\ delegators # {} => validator_metrics # {}
    /\ pdd.pc = "save_delegator_data" =>
          /\ Cardinality(epoch_data) = 1 /\ Cardinality(validator_metrics) = 1
          /\ RowsWritten \cup pdd.pending = { p[2] : p \in pdd.delegator_data }
          /\ Cardinality(delegators) = Cardinality(RowsWritten)
    /\ pdd.pc = "done" =>
          /\ Cardinality(epoch_data) = 1 /\ Cardinality(validator_metrics) = 1
          /\ RowsWritten = { p[2] : p \in pdd.delegator_data }
          /\ Cardinality(delegators) = Cardinality(RowsWritten)

\* the step in which the task fails writes nothing, and every other step
\* writes at most the collection of its position
FailureWritesNothing ==
    /\ pdd'.pc = "failed" =>
          /\ epoch_data' = epoch_data
          /\ validator_metrics' = validator_metrics
          /\ delegators' = delegators
    /\ epoch_data' # epoch_data => pdd.pc = "save_epoch_data"
    /\ validator_metrics' # validator_metrics => pdd.pc = "save_validator_metrics"
    /\ delegators' # delegators => pdd.pc = "save_delegator_data"

\* C38: within one epoch task the chain reads (the accounts of the previous
\* epoch, the current accounts) complete before the first store write; the
\* writes happen in the order epoch_data, validator_metrics, delegators
\* rows; the task stops at the first failure, so that the documents of a
\* failed task are a prefix of that order, and none when a chain read failed.
C38_ReadThenWrite == [] WritesArePrefix /\ [][FailureWritesNothing]_vars

\* C38 witness: a task of two delegators failed at its second row after the
\* epoch_data document, the metrics and one row
C38_Witness ==
    /\ pdd.pc = "failed"
    /\ pdd.result = Err("Db")
    /\ Cardinality(pdd.delegator_data) = 2
    /\ Cardinality(epoch_data) = 1
    /\ Cardinality(validator_metrics) = 1
    /\ Cardinality(delegators) = 1

\* a task whose second chain read failed has written nothing
C38_ReadFailedReached ==
    ~ ( /\ pdd.pc = "failed"
        /\ pdd.result = Err("Rpc")
        /\ pdd.initial_stakes # HashMapNew
        /\ epoch_data = {} )


----------------------------------------------------------------------------
(* Claims about the persistence of the transactions                        *)

\* a run that has not saved has left the collection as it found it: every
\* persisted transaction is at or below the height the run resumed after
\* (the rows of the run are above it), and a run that has returned has
\* appended its batch and nothing else
RunLeavesCollection ==
    /\ ftx.pc \in { "fetch", "process", "save", "failed" } =>
          \A j \in 1..Len(transactions) :
              transactions[j].block_height <= ftx.last_block_height
    /\ ftx.pc = "returned" =>
          /\ Len(transactions) >= Len(ftx.processed_transactions)
          /\ SubSeq(transactions,
                    Len(transactions) - Len(ftx.processed_transactions) + 1,
                    Len(transactions)) = ftx.processed_transactions
          /\ \A j \in 1..(Len(transactions) - Len(ftx.processed_transactions)) :
                transactions[j].block_height <= ftx.last_block_height

\* the collection is written by one insert of the whole batch, after every
\* fetched transaction has been classified, and by no other step
SingleInsertMany ==
    transactions' # transactions =>
        /\ ftx.pc = "save"
        /\ ftx'.pc = "returned"
        /\ ftx.i = Len(ftx.all_transactions)
        /\ transactions' = transactions \o ftx.processed_transactions

\* C39: the transactions collection is written by a single insert-many
\* that happens only after every fetched transaction of the run has been
\* classified; if fetching a page, fetching receipts or classifying a
\* transaction returns an error, the run leaves the collection unchanged.
C39_AllOrNothing == [] RunLeavesCollection /\ [][SingleInsertMany]_vars

\* C39 witness: a run failed at its second transaction after having
\* classified the first, and the collection is empty as the run found it
C39_Witness ==
    /\ ftx.pc = "failed"
    /\ Len(ftx.all_transactions) = 2
    /\ ftx.i = 1
    /\ Len(ftx.processed_transactions) = 1
    /\ transactions = << >>

\* a first run that failed while fetching left the collection empty
C39_FetchFailedReached ==
    ~ ( /\ ftx.pc = "failed"
        /\ ftx.run = 1
        /\ ftx.all_transactions # << >>
        /\ ftx.error = Err("Http")
        /\ transactions = << >> )


\* a second run that failed left the batch of the first run alone
C39_SecondRunFailedReached ==
    ~ ( /\ ftx.pc = "failed"
        /\ ftx.run = 2
        /\ ftx.all_transactions # << >>
        /\ Len(transactions) = 1 )


----------------------------------------------------------------------------
(* Claims about the exit status                                            *)

\* a run that got its list of epochs ends with success only
EndsWithSuccess ==
    drv.pc = "exit" /\ drv.epoch_data # << >> => drv.exit = "success"

\* the fan-out is left by the return of Ok(()) only
FanOutLeavesWithSuccess ==
    drv.pc = "fan_out" /\ drv'.pc # "fan_out" =>
        drv'.pc = "exit" /\ drv'.exit = "success"

\* C40: whenever transaction fetching and epoch discovery succeed, the run
\* finishes with success however many epoch tasks returned an error, also
\* when every epoch task failed and nothing was written to epoch_data,
\* validator_metrics or delegators (the fan-out runs with a parallel limit
\* of at least 1).
C40_ExitIgnoresEpochFailures ==
    /\ [] EndsWithSuccess
    /\ [][FanOutLeavesWithSuccess]_vars
    /\ (drv.pc = "fan_out" /\ drv.parallel_limit >= 1)
           ~> (drv.pc = "exit" /\ drv.exit = "success")

\* C40 witness: the tasks of three epochs have all failed before their
\* first write, the three errors have been logged and the run has ended
\* with success
C40_Witness ==
    /\ drv.pc = "exit"
    /\ drv.exit = "success"
    /\ Len(drv.epoch_data) = 3
    /\ Len(drv.process_epoch_tasks) = 3
    /\ \A k \in 1..3 : ~IsOk(drv.process_epoch_tasks[k].result)
    /\ Len(drv.logged) = 3
    /\ epoch_data = {}
    /\ validator_metrics = {}
    /\ delegators = {}

====
